---- MODULE Spec2Model ----
(***************************************************************************)
(* Model of the per-user encrypted credential store of the Tembo Discord   *)
(* bot: AuthService (src/src/services/auth.service.ts) on top of           *)
(* DatabaseService (src/src/services/database.service.ts),                 *)
(* EncryptionService (src/src/services/encryption.service.ts) and the      *)
(* Tembo /me validator (src/src/services/tembo.service.ts).                *)
(*                                                                         *)
(* Every `await` of AuthService is one step of the calling request, so     *)
(* requests running in the same worker interleave at exactly the points    *)
(* where the code yields.  Storage calls may fail (D1 throws), the         *)
(* validator answers nondeterministically, and stored rows may be altered  *)
(* out of band.                                                            *)
(***************************************************************************)
EXTENDS Integers, Sequences, FiniteSets, TLC

(* ------------------------------ bounds --------------------------------- *)
MaxCalls == 2
MaxTamper == 1

Procs == {1, 2}
Users == {"u1"}
EmptyKey == ""
RealKeys == {"k1", "k2"}
Keys == RealKeys \cup {EmptyKey}

NULL == "null"
Null == <<>>
Some(x) == <<x>>

(* ------------------------- Tembo /me validator ------------------------- *)
\* What the SDK call client.me.retrieve() can do for a key.
SdkOutcomes == {"ok", "incomplete", "401", "503"}

UserIdOf(k) == IF k = "k1" THEN "U1" ELSE "U2"
OrgIdOf(k) == IF k = "k1" THEN "O1" ELSE "O2"
EmailOf(k) == IF k = "k1" THEN "a@x" ELSE "b@x"

NoUserInfo == [userId |-> NULL, orgId |-> NULL, email |-> NULL]

\* handleTemboApiError: the error class thrown for an SDK failure.
handleTemboApiError(sdk) ==
  IF sdk = "401" THEN "AuthenticationError" ELSE "ServiceUnavailableError"

\* Mutant: every Tembo API error counts as an authentication error.
isAuthError_AnyApiError(err) == err # NULL

isAuthError(err) == err = "AuthenticationError"

\* createTemboService: throws TemboApiError (not an AuthenticationError)
\* for an empty or blank key.
createTemboService(apiKey) ==
  IF apiKey = EmptyKey
  THEN [threw |-> TRUE, error |-> "TemboApiError", client |-> Null]
  ELSE [threw |-> FALSE, error |-> NULL, client |-> Some(apiKey)]

\* Mutant: a service failure is swallowed and an empty user is returned.
getCurrentUser_SwallowsUnavailable(apiKey, sdk) ==
  CASE sdk = "ok" ->
         [threw |-> FALSE, error |-> NULL,
          userInfo |-> [userId |-> UserIdOf(apiKey), orgId |-> OrgIdOf(apiKey),
                        email |-> EmailOf(apiKey)]]
    [] sdk = "401" ->
         [threw |-> TRUE, error |-> "AuthenticationError", userInfo |-> NoUserInfo]
    [] OTHER ->
         [threw |-> FALSE, error |-> NULL,
          userInfo |-> [userId |-> "", orgId |-> OrgIdOf(apiKey),
                        email |-> EmailOf(apiKey)]]

\* TemboService.getCurrentUser: maps the SDK response to TemboUserInfo
\* (userId ?? "", orgId ?? ...), or throws handleTemboApiError(error).
getCurrentUser(apiKey, sdk) ==
  CASE sdk = "ok" ->
         [threw |-> FALSE, error |-> NULL,
          userInfo |-> [userId |-> UserIdOf(apiKey), orgId |-> OrgIdOf(apiKey),
                        email |-> EmailOf(apiKey)]]
    [] sdk = "incomplete" ->
         [threw |-> FALSE, error |-> NULL,
          userInfo |-> [userId |-> "", orgId |-> OrgIdOf(apiKey),
                        email |-> EmailOf(apiKey)]]
    [] OTHER ->
         [threw |-> TRUE, error |-> handleTemboApiError(sdk),
          userInfo |-> NoUserInfo]

\* Mutant: the required-fields check on the returned claims is missing.
validateApiKey_NoFieldCheck(apiKey, sdk) ==
  LET svc == createTemboService(apiKey)
      me == getCurrentUser(apiKey, sdk)
  IN IF svc.threw THEN [valid |-> FALSE, userInfo |-> NoUserInfo]
     ELSE IF me.threw THEN [valid |-> FALSE, userInfo |-> NoUserInfo]
     ELSE [valid |-> TRUE, userInfo |-> me.userInfo]

\* AuthService.validateApiKey: { valid, userInfo? }.
validateApiKey(apiKey, sdk) ==
  LET svc == createTemboService(apiKey)
      me == getCurrentUser(apiKey, sdk)
  IN IF svc.threw THEN [valid |-> FALSE, userInfo |-> NoUserInfo]
     ELSE IF me.threw THEN [valid |-> FALSE, userInfo |-> NoUserInfo]
     ELSE IF me.userInfo.userId = "" \/ me.userInfo.orgId = ""
          THEN [valid |-> FALSE, userInfo |-> NoUserInfo]
     ELSE [valid |-> TRUE, userInfo |-> me.userInfo]

(* --------------------------- EncryptionService ------------------------- *)
\* AES-256-GCM under the key derived from (master secret, salt): the
\* ciphertext is a sealed term that opens only under the same salt, iv and
\* additional authenticated data.
NoPayload == [ciphertext |-> [pt |-> NULL, aad |-> NULL, iv |-> 0, salt |-> 0],
              iv |-> 0, salt |-> 0]

encryptApiKey(plaintext, discordUserId, freshIv, freshSalt) ==
  [ciphertext |-> [pt |-> plaintext, aad |-> discordUserId,
                   iv |-> freshIv, salt |-> freshSalt],
   iv |-> freshIv, salt |-> freshSalt]

\* Mutant: the iv is not authenticated.
decryptApiKey_IgnoresIv(encrypted, discordUserId) ==
  IF /\ encrypted.ciphertext.salt = encrypted.salt
     /\ encrypted.ciphertext.aad = discordUserId
  THEN [threw |-> FALSE, plaintext |-> encrypted.ciphertext.pt]
  ELSE [threw |-> TRUE, plaintext |-> NULL]

decryptApiKey(encrypted, discordUserId) ==
  IF /\ encrypted.ciphertext.salt = encrypted.salt
     /\ encrypted.ciphertext.iv = encrypted.iv
     /\ encrypted.ciphertext.aad = discordUserId
  THEN [threw |-> FALSE, plaintext |-> encrypted.ciphertext.pt]
  ELSE [threw |-> TRUE, plaintext |-> NULL]

(* ---------------------------- DatabaseService -------------------------- *)
\* user_api_keys is a function from the registered discord_user_id values
\* (the primary key) to rows.
getUserApiKey(table, discordUserId) ==
  IF discordUserId \in DOMAIN table THEN Some(table[discordUserId]) ELSE Null

\* Mutant: the INSERT does not bind validation_status and stores "pending".
saveUserApiKey_Pending(table, record, t) ==
  table @@ (record.discordUserId :>
    [discordUserId |-> record.discordUserId,
     encryptedApiKey |-> record.encryptedApiKey,
     encryptionIv |-> record.encryptionIv,
     encryptionSalt |-> record.encryptionSalt,
     registrationTimestamp |-> t,
     lastUsedTimestamp |-> t,
     lastValidatedTimestamp |-> record.lastValidatedTimestamp,
     validationStatus |-> "pending",
     temboUserId |-> record.temboUserId,
     temboOrgId |-> record.temboOrgId,
     temboEmail |-> record.temboEmail])

saveUserApiKey(table, record, t) ==
  table @@ (record.discordUserId :>
    [discordUserId |-> record.discordUserId,
     encryptedApiKey |-> record.encryptedApiKey,
     encryptionIv |-> record.encryptionIv,
     encryptionSalt |-> record.encryptionSalt,
     registrationTimestamp |-> t,
     lastUsedTimestamp |-> t,
     lastValidatedTimestamp |-> record.lastValidatedTimestamp,
     validationStatus |-> record.validationStatus,
     temboUserId |-> record.temboUserId,
     temboOrgId |-> record.temboOrgId,
     temboEmail |-> record.temboEmail])

\* Mutant: the UPDATE also rewrites registration_timestamp.
updateUserApiKey_ResetsRegistration(table, discordUserId, encrypted, t) ==
  [u \in DOMAIN table |->
     IF u = discordUserId
     THEN [table[u] EXCEPT !.encryptedApiKey = encrypted.ciphertext,
                           !.encryptionIv = encrypted.iv,
                           !.encryptionSalt = encrypted.salt,
                           !.registrationTimestamp = t,
                           !.lastUsedTimestamp = t,
                           !.lastValidatedTimestamp = t,
                           !.validationStatus = "pending"]
     ELSE table[u]]

updateUserApiKey(table, discordUserId, encrypted, t) ==
  [u \in DOMAIN table |->
     IF u = discordUserId
     THEN [table[u] EXCEPT !.encryptedApiKey = encrypted.ciphertext,
                           !.encryptionIv = encrypted.iv,
                           !.encryptionSalt = encrypted.salt,
                           !.lastUsedTimestamp = t,
                           !.lastValidatedTimestamp = t,
                           !.validationStatus = "pending"]
     ELSE table[u]]

\* Mutant: a soft delete, the row stays as an "invalid" tombstone.
deleteUserApiKey_Tombstone(table, discordUserId) ==
  [u \in DOMAIN table |->
     IF u = discordUserId
     THEN [table[u] EXCEPT !.validationStatus = "invalid"]
     ELSE table[u]]

deleteUserApiKey(table, discordUserId) ==
  [u \in DOMAIN table \ {discordUserId} |-> table[u]]

\* Mutant: the freshness touch also restores the status.
updateLastUsed_MarksValid(table, discordUserId, t) ==
  [u \in DOMAIN table |->
     IF u = discordUserId
     THEN [table[u] EXCEPT !.lastUsedTimestamp = t, !.validationStatus = "valid"]
     ELSE table[u]]

updateLastUsed(table, discordUserId, t) ==
  [u \in DOMAIN table |->
     IF u = discordUserId
     THEN [table[u] EXCEPT !.lastUsedTimestamp = t]
     ELSE table[u]]

\* Mutant: the UPDATE leaves validation_status out of its SET list.
updateValidationStatus_KeepsStatus(table, discordUserId, status, userInfo, t) ==
  [u \in DOMAIN table |->
     IF u = discordUserId
     THEN [table[u] EXCEPT !.lastValidatedTimestamp = t,
                           !.temboUserId = userInfo.userId,
                           !.temboOrgId = userInfo.orgId,
                           !.temboEmail = userInfo.email]
     ELSE table[u]]

\* Mutant: the UPDATE also binds a new last_used_timestamp.
updateValidationStatus_TouchesLastUsed(table, discordUserId, status, userInfo, t) ==
  [u \in DOMAIN table |->
     IF u = discordUserId
     THEN [table[u] EXCEPT !.validationStatus = status,
                           !.lastValidatedTimestamp = t,
                           !.lastUsedTimestamp = t,
                           !.temboUserId = userInfo.userId,
                           !.temboOrgId = userInfo.orgId,
                           !.temboEmail = userInfo.email]
     ELSE table[u]]

updateValidationStatus(table, discordUserId, status, userInfo, t) ==
  [u \in DOMAIN table |->
     IF u = discordUserId
     THEN [table[u] EXCEPT !.validationStatus = status,
                           !.lastValidatedTimestamp = t,
                           !.temboUserId = userInfo.userId,
                           !.temboOrgId = userInfo.orgId,
                           !.temboEmail = userInfo.email]
     ELSE table[u]]

logAuthEvent(log, event) == Append(log, event)

getUserStatus(table, discordUserId) ==
  LET record == getUserApiKey(table, discordUserId)
  IN IF record = Null
     THEN [registered |-> FALSE]
     ELSE [registered |-> TRUE,
           discordUserId |-> record[1].discordUserId,
           registrationTimestamp |-> record[1].registrationTimestamp,
           lastUsedTimestamp |-> record[1].lastUsedTimestamp,
           lastValidatedTimestamp |-> record[1].lastValidatedTimestamp,
           validationStatus |-> record[1].validationStatus,
           temboUserId |-> record[1].temboUserId,
           temboOrgId |-> record[1].temboOrgId,
           temboEmail |-> record[1].temboEmail]

isUserRegistered(table, discordUserId) ==
  getUserApiKey(table, discordUserId) # Null

(* ------------------------- results and messages ------------------------ *)
MsgDecryptFailed == "Failed to decrypt your API key. Please re-register using /setup."
MsgInitFailed == "Failed to initialize Tembo service with your API key."
MsgKeyInvalid == "Your API key is invalid or expired. Please update it using /setup."
MsgValidateFailed == "Failed to validate your API key. Please try again or use /setup to update it."
MsgAuthUnexpected == "An unexpected error occurred during authentication."
MsgInvalidKey == "Invalid API key. Please check your key and try again. Make sure you copied the entire key from the Tembo dashboard."
MsgEncryptFailed == "Failed to encrypt your API key. Please try again or contact support."
MsgRegUnexpected == "An unexpected error occurred while registering your API key. Please try again."
MsgUnregisterFailed == "Failed to unregister user. Please try again."

\* AuthResult / RegisterResult / the outcome of unregisterUser, in one shape.
\* returned = FALSE while the call has not produced its outcome yet.
NoResult ==
  [returned |-> FALSE, threw |-> FALSE, success |-> FALSE,
   requiresOnboarding |-> FALSE, temboService |-> Null,
   userInfo |-> NoUserInfo, error |-> NULL]

\* Mutant: a failure is returned with the onboarding flag set.
AuthFailure_Onboarding(msg) ==
  [NoResult EXCEPT !.returned = TRUE, !.requiresOnboarding = TRUE, !.error = msg]

AuthFailure(msg) == [NoResult EXCEPT !.returned = TRUE, !.error = msg]
AuthOnboarding == [NoResult EXCEPT !.returned = TRUE, !.requiresOnboarding = TRUE]
AuthSuccess(client) ==
  [NoResult EXCEPT !.returned = TRUE, !.success = TRUE, !.temboService = client]
RegisterFailure(msg) == [NoResult EXCEPT !.returned = TRUE, !.error = msg]
RegisterSuccess(info) ==
  [NoResult EXCEPT !.returned = TRUE, !.success = TRUE, !.userInfo = info]
UnregisterDone == [NoResult EXCEPT !.returned = TRUE, !.success = TRUE]
UnregisterThrew ==
  [NoResult EXCEPT !.returned = TRUE, !.threw = TRUE, !.error = MsgUnregisterFailed]

(* -------------------------------- state -------------------------------- *)
VARIABLES
  user_api_keys,  \* the credential table
  auth_events,    \* the audit table, in insertion order
  pc,             \* where each request is in its AuthService method
  call,           \* the method and arguments of each request
  loc,            \* the local variables of each request
  res,            \* the outcome of each request's last call
  trace,          \* the collaborator calls each request has issued
  accepted,       \* per key: accepted by /me, and not rejected at authentication since
  now,            \* Date.now()
  issued,         \* per request: the Date.now() its pending statement was issued with
  nonce,          \* source of the random salt and iv values
  ncalls,         \* number of calls started
  faulted,        \* some storage, audit or crypto call has failed so far
  ntamper,        \* number of out-of-band row alterations
  crypto,         \* an EncryptionService exercised on its own (SpecCrypto)
  router          \* one request in the interaction router (SpecRouter)

vars == <<user_api_keys, auth_events, pc, call, loc, res, trace, accepted,
          now, issued, nonce, ncalls, faulted, ntamper, crypto, router>>

\* The EncryptionService and the router are not exercised on their own here.
NoCrypto == [stage |-> "none"]
NoRequest == [stage |-> "none"]

NoCall == [op |-> "none", user |-> NULL, key |-> NULL]

NoLocals ==
  [validation |-> [valid |-> FALSE, userInfo |-> NoUserInfo],
   encrypted |-> NoPayload,
   existingUser |-> FALSE,
   record |-> Null,
   decryptedApiKey |-> NULL,
   sdk |-> NULL,
   stored |-> FALSE]   \* the call's INSERT or UPDATE of the ciphertext changed a row

AuthEvent(u, type, t, reason, temboUserId) ==
  [discordUserId |-> u, eventType |-> type, timestamp |-> t,
   reason |-> reason, temboUserId |-> temboUserId]

\* The database outlives the worker: it is either empty, or holds the row and
\* the audit event left by an earlier registerApiKey("u1", "k1") that the
\* validator accepted at time 1.
EarlierUser == "u1"
EarlierKey == "k1"
EarlierInfo == validateApiKey(EarlierKey, "ok").userInfo
EarlierPayload == encryptApiKey(EarlierKey, EarlierUser, 1, 2)

EarlierTable ==
  saveUserApiKey(<< >>,
    [discordUserId |-> EarlierUser,
     encryptedApiKey |-> EarlierPayload.ciphertext,
     encryptionIv |-> EarlierPayload.iv,
     encryptionSalt |-> EarlierPayload.salt,
     lastValidatedTimestamp |-> 1,
     validationStatus |-> "valid",
     temboUserId |-> EarlierInfo.userId,
     temboOrgId |-> EarlierInfo.orgId,
     temboEmail |-> EarlierInfo.email], 1)

EarlierEvents ==
  logAuthEvent(<< >>, AuthEvent(EarlierUser, "register", 1, NULL, EarlierInfo.userId))

Init ==
  /\ \/ /\ user_api_keys = << >>
        /\ auth_events = << >>
        /\ accepted = [k \in Keys |-> FALSE]
        /\ now = 0
        /\ nonce = 0
     \/ /\ user_api_keys = EarlierTable
        /\ auth_events = EarlierEvents
        /\ accepted = [k \in Keys |-> k = EarlierKey]
        /\ now = 1
        /\ nonce = 2
  /\ pc = [p \in Procs |-> "idle"]
  /\ issued = [p \in Procs |-> 0]
  /\ call = [p \in Procs |-> NoCall]
  /\ loc = [p \in Procs |-> NoLocals]
  /\ res = [p \in Procs |-> NoResult]
  /\ trace = [p \in Procs |-> << >>]
  /\ ncalls = 0
  /\ faulted = FALSE
  /\ ntamper = 0
  /\ crypto = NoCrypto
  /\ router = NoRequest

Issued(p, fn, ok) == Append(trace[p], [fn |-> fn, ok |-> ok])

\* The request returns r to its caller.
Return(p, r) ==
  /\ pc' = [pc EXCEPT ![p] = "idle"]
  /\ issued' = [issued EXCEPT ![p] = 0]
  /\ res' = [res EXCEPT ![p] = r]

\* The awaits whose statement carries a timestamp: updateUserApiKey,
\* updateValidationStatus, saveUserApiKey and updateLastUsed read Date.now()
\* when they are called, logAuthEvent gets it in its argument.
Timestamped ==
  {"r_update", "r_status", "r_log_update", "r_save", "r_log_register",
   "a_log_decrypt", "a_touch", "a_invalidate", "a_log_invalid", "u_log"}

\* The request goes on to its next await.  The continuation that runs now
\* issues the next statement and, for a timestamped one, reads Date.now();
\* the value stays with the statement until the store performs it.
Goto(p, label) ==
  /\ pc' = [pc EXCEPT ![p] = label]
  /\ issued' = [issued EXCEPT ![p] = IF label \in Timestamped THEN now ELSE 0]
  /\ UNCHANGED res

\* An AuthService method is entered by request p.
Enter(p, op, u, k, label) ==
  /\ pc[p] = "idle"
  /\ ncalls < MaxCalls
  /\ ncalls' = ncalls + 1
  /\ now' = now + 1
  /\ issued' = [issued EXCEPT ![p] = 0]
  /\ pc' = [pc EXCEPT ![p] = label]
  /\ call' = [call EXCEPT ![p] = [op |-> op, user |-> u, key |-> k]]
  /\ loc' = [loc EXCEPT ![p] = NoLocals]
  /\ res' = [res EXCEPT ![p] = NoResult]
  /\ trace' = [trace EXCEPT ![p] = << >>]
  /\ UNCHANGED <<user_api_keys, auth_events, accepted, nonce, faulted, ntamper, crypto>>

Begin(p, op, u, k, label) == Enter(p, op, u, k, label) /\ UNCHANGED router

(* ---------------------- AuthService.registerApiKey ---------------------- *)
StartRegister(p, u, k) == Begin(p, "register", u, k, "r_validate")

\* Step 1: validateApiKey(apiKey).
RegValidate(p) ==
  /\ pc[p] = "r_validate"
  /\ \E sdk \in SdkOutcomes :
       LET k == call[p].key
           svc == createTemboService(k)
           validation == validateApiKey(k, sdk)
       IN /\ trace' = [trace EXCEPT ![p] =
                         IF svc.threw THEN @
                         ELSE Append(@, [fn |-> "getCurrentUser", ok |-> validation.valid])]
          /\ loc' = [loc EXCEPT ![p].validation = validation,
                                ![p].sdk = IF svc.threw THEN NULL ELSE sdk]
          /\ accepted' = IF validation.valid
                         THEN [accepted EXCEPT ![k] = TRUE] ELSE accepted
          /\ IF validation.valid
             THEN Goto(p, "r_encrypt")
             ELSE Return(p, RegisterFailure(MsgInvalidKey))
  /\ UNCHANGED <<user_api_keys, auth_events, call, now, nonce, ncalls, faulted, ntamper, crypto, router>>

\* Mutant: encryptApiKey reuses the salt and iv of the previous encryption.
RegEncrypt_ReusesRandomness(p) ==
  /\ pc[p] = "r_encrypt"
  /\ \E ok \in BOOLEAN :
       /\ trace' = [trace EXCEPT ![p] = Issued(p, "encryptApiKey", ok)]
       /\ faulted' = (faulted \/ ~ok)
       /\ IF ok
          THEN /\ loc' = [loc EXCEPT ![p].encrypted =
                            encryptApiKey(call[p].key, call[p].user,
                                          nonce - 1, nonce)]
               /\ UNCHANGED nonce
               /\ Goto(p, "r_lookup")
          ELSE /\ UNCHANGED <<loc, nonce>>
               /\ Return(p, RegisterFailure(MsgEncryptFailed))
  /\ UNCHANGED <<user_api_keys, auth_events, call, accepted, now, ncalls, ntamper, crypto, router>>

\* Step 2: encryptApiKey(apiKey, discordUserId), with a fresh salt and iv.
RegEncrypt(p) ==
  /\ pc[p] = "r_encrypt"
  /\ \E ok \in BOOLEAN :
       /\ trace' = [trace EXCEPT ![p] = Issued(p, "encryptApiKey", ok)]
       /\ faulted' = (faulted \/ ~ok)
       /\ IF ok
          THEN /\ loc' = [loc EXCEPT ![p].encrypted =
                            encryptApiKey(call[p].key, call[p].user,
                                          nonce + 1, nonce + 2)]
               /\ nonce' = nonce + 2
               /\ Goto(p, "r_lookup")
          ELSE /\ UNCHANGED <<loc, nonce>>
               /\ Return(p, RegisterFailure(MsgEncryptFailed))
  /\ UNCHANGED <<user_api_keys, auth_events, call, accepted, now, ncalls, ntamper, crypto, router>>

\* Step 3: existingUser = getUserApiKey(discordUserId).
RegLookup(p) ==
  /\ pc[p] = "r_lookup"
  /\ \E ok \in BOOLEAN :
       /\ trace' = [trace EXCEPT ![p] = Issued(p, "getUserApiKey", ok)]
       /\ faulted' = (faulted \/ ~ok)
       /\ IF ok
          THEN LET existingUser == getUserApiKey(user_api_keys, call[p].user)
               IN /\ loc' = [loc EXCEPT ![p].existingUser = (existingUser # Null)]
                  /\ Goto(p, IF existingUser # Null THEN "r_update" ELSE "r_save")
          ELSE /\ UNCHANGED loc
               /\ Return(p, RegisterFailure(MsgRegUnexpected))
  /\ UNCHANGED <<user_api_keys, auth_events, call, accepted, now, nonce, ncalls, ntamper, crypto, router>>

\* existingUser: updateUserApiKey(discordUserId, encrypted).
RegUpdateKey(p) ==
  /\ pc[p] = "r_update"
  /\ \E ok \in BOOLEAN :
       /\ trace' = [trace EXCEPT ![p] = Issued(p, "updateUserApiKey", ok)]
       /\ faulted' = (faulted \/ ~ok)
       /\ IF ok
          THEN /\ user_api_keys' = updateUserApiKey(user_api_keys, call[p].user,
                                                    loc[p].encrypted, issued[p])
               /\ loc' = [loc EXCEPT ![p].stored = (call[p].user \in DOMAIN user_api_keys)]
               /\ Goto(p, "r_status")
          ELSE /\ UNCHANGED <<user_api_keys, loc>>
               /\ Return(p, RegisterFailure(MsgRegUnexpected))
  /\ UNCHANGED <<auth_events, call, accepted, now, nonce, ncalls, ntamper, crypto, router>>

\* existingUser: updateValidationStatus(discordUserId, "valid", userInfo).
RegUpdateStatus(p) ==
  /\ pc[p] = "r_status"
  /\ \E ok \in BOOLEAN :
       /\ trace' = [trace EXCEPT ![p] = Issued(p, "updateValidationStatus", ok)]
       /\ faulted' = (faulted \/ ~ok)
       /\ IF ok
          THEN /\ user_api_keys' =
                    updateValidationStatus(user_api_keys, call[p].user, "valid",
                                           loc[p].validation.userInfo, issued[p])
               /\ Goto(p, "r_log_update")
          ELSE /\ UNCHANGED user_api_keys
               /\ Return(p, RegisterFailure(MsgRegUnexpected))
  /\ UNCHANGED <<auth_events, call, loc, accepted, now, nonce, ncalls, ntamper, crypto, router>>

\* Mutant: the update branch logs a "register" event.
RegLogUpdate_LogsRegister(p) ==
  /\ pc[p] = "r_log_update"
  /\ \E ok \in BOOLEAN :
       /\ trace' = [trace EXCEPT ![p] = Issued(p, "logAuthEvent:update", ok)]
       /\ faulted' = (faulted \/ ~ok)
       /\ auth_events' =
            IF ok
            THEN logAuthEvent(auth_events,
                   AuthEvent(call[p].user, "register", issued[p], NULL,
                             loc[p].validation.userInfo.userId))
            ELSE auth_events
  /\ Return(p, RegisterSuccess(loc[p].validation.userInfo))
  /\ UNCHANGED <<user_api_keys, call, loc, accepted, now, nonce, ncalls, ntamper, crypto, router>>

\* existingUser: logAuthEvent("update"), then return success.
RegLogUpdate(p) ==
  /\ pc[p] = "r_log_update"
  /\ \E ok \in BOOLEAN :
       /\ trace' = [trace EXCEPT ![p] = Issued(p, "logAuthEvent:update", ok)]
       /\ faulted' = (faulted \/ ~ok)
       /\ auth_events' =
            IF ok
            THEN logAuthEvent(auth_events,
                   AuthEvent(call[p].user, "update", issued[p], NULL,
                             loc[p].validation.userInfo.userId))
            ELSE auth_events
  /\ Return(p, RegisterSuccess(loc[p].validation.userInfo))
  /\ UNCHANGED <<user_api_keys, call, loc, accepted, now, nonce, ncalls, ntamper, crypto, router>>

\* no existingUser: saveUserApiKey({... validationStatus: "valid" ...}).
\* The INSERT fails when the backend fails or the primary key exists.
RegSave(p) ==
  /\ pc[p] = "r_save"
  /\ \E backendOk \in BOOLEAN :
       LET u == call[p].user
           ok == backendOk /\ u \notin DOMAIN user_api_keys
           info == loc[p].validation.userInfo
       IN /\ trace' = [trace EXCEPT ![p] = Issued(p, "saveUserApiKey", ok)]
          /\ faulted' = (faulted \/ ~backendOk)
          /\ IF ok
             THEN /\ user_api_keys' =
                       saveUserApiKey(user_api_keys,
                         [discordUserId |-> u,
                          encryptedApiKey |-> loc[p].encrypted.ciphertext,
                          encryptionIv |-> loc[p].encrypted.iv,
                          encryptionSalt |-> loc[p].encrypted.salt,
                          lastValidatedTimestamp |-> issued[p],
                          validationStatus |-> "valid",
                          temboUserId |-> info.userId,
                          temboOrgId |-> info.orgId,
                          temboEmail |-> info.email], issued[p])
                  /\ loc' = [loc EXCEPT ![p].stored = TRUE]
                  /\ Goto(p, "r_log_register")
             ELSE /\ UNCHANGED <<user_api_keys, loc>>
                  /\ Return(p, RegisterFailure(MsgRegUnexpected))
  /\ UNCHANGED <<auth_events, call, accepted, now, nonce, ncalls, ntamper, crypto, router>>

\* Mutant: a failed audit write fails the registration.
RegLogRegister_FailsOnAuditError(p) ==
  /\ pc[p] = "r_log_register"
  /\ \E ok \in BOOLEAN :
       /\ trace' = [trace EXCEPT ![p] = Issued(p, "logAuthEvent:register", ok)]
       /\ faulted' = (faulted \/ ~ok)
       /\ auth_events' =
            IF ok
            THEN logAuthEvent(auth_events,
                   AuthEvent(call[p].user, "register", issued[p], NULL,
                             loc[p].validation.userInfo.userId))
            ELSE auth_events
       /\ IF ok
          THEN Return(p, RegisterSuccess(loc[p].validation.userInfo))
          ELSE Return(p, RegisterFailure(MsgRegUnexpected))
  /\ UNCHANGED <<user_api_keys, call, loc, accepted, now, nonce, ncalls, ntamper, crypto, router>>

\* no existingUser: logAuthEvent("register"), then return success.
RegLogRegister(p) ==
  /\ pc[p] = "r_log_register"
  /\ \E ok \in BOOLEAN :
       /\ trace' = [trace EXCEPT ![p] = Issued(p, "logAuthEvent:register", ok)]
       /\ faulted' = (faulted \/ ~ok)
       /\ auth_events' =
            IF ok
            THEN logAuthEvent(auth_events,
                   AuthEvent(call[p].user, "register", issued[p], NULL,
                             loc[p].validation.userInfo.userId))
            ELSE auth_events
  /\ Return(p, RegisterSuccess(loc[p].validation.userInfo))
  /\ UNCHANGED <<user_api_keys, call, loc, accepted, now, nonce, ncalls, ntamper, crypto, router>>

(* --------------------- AuthService.authenticateUser -------------------- *)
StartAuthenticate(p, u) == Begin(p, "authenticate", u, NULL, "a_lookup")

\* record = getUserApiKey(discordUserId); absent: requiresOnboarding.
AuthLookup(p) ==
  /\ pc[p] = "a_lookup"
  /\ \E ok \in BOOLEAN :
       /\ trace' = [trace EXCEPT ![p] = Issued(p, "getUserApiKey", ok)]
       /\ faulted' = (faulted \/ ~ok)
       /\ IF ok
          THEN LET record == getUserApiKey(user_api_keys, call[p].user)
               IN /\ loc' = [loc EXCEPT ![p].record = record]
                  /\ IF record = Null
                     THEN Return(p, AuthOnboarding)
                     ELSE Goto(p, "a_decrypt")
          ELSE /\ UNCHANGED loc
               /\ Return(p, AuthFailure(MsgAuthUnexpected))
  /\ UNCHANGED <<user_api_keys, auth_events, call, accepted, now, nonce, ncalls, ntamper, crypto, router>>

\* decryptApiKey(encrypted, discordUserId), then createTemboService(key).
AuthDecrypt(p) ==
  /\ pc[p] = "a_decrypt"
  /\ LET record == loc[p].record[1]
         encrypted == [ciphertext |-> record.encryptedApiKey,
                       iv |-> record.encryptionIv,
                       salt |-> record.encryptionSalt]
         decrypted == decryptApiKey(encrypted, call[p].user)
         svc == createTemboService(decrypted.plaintext)
     IN /\ trace' = [trace EXCEPT ![p] = Issued(p, "decryptApiKey", ~decrypted.threw)]
        /\ IF decrypted.threw
           THEN /\ UNCHANGED loc
                /\ Goto(p, "a_log_decrypt")
           ELSE IF svc.threw
           THEN /\ UNCHANGED loc
                /\ Return(p, AuthFailure(MsgInitFailed))
           ELSE /\ loc' = [loc EXCEPT ![p].decryptedApiKey = decrypted.plaintext]
                /\ Goto(p, "a_validate")
  /\ UNCHANGED <<user_api_keys, auth_events, call, accepted, now, nonce, ncalls, faulted, ntamper, crypto, router>>

\* decryption failed: logAuthEvent("auth_failure", decryption_failed), return.
AuthLogDecrypt(p) ==
  /\ pc[p] = "a_log_decrypt"
  /\ \E ok \in BOOLEAN :
       /\ trace' = [trace EXCEPT ![p] = Issued(p, "logAuthEvent:auth_failure", ok)]
       /\ faulted' = (faulted \/ ~ok)
       /\ auth_events' =
            IF ok
            THEN logAuthEvent(auth_events,
                   AuthEvent(call[p].user, "auth_failure", issued[p], "decryption_failed", NULL))
            ELSE auth_events
  /\ Return(p, AuthFailure(MsgDecryptFailed))
  /\ UNCHANGED <<user_api_keys, call, loc, accepted, now, nonce, ncalls, ntamper, crypto, router>>

\* temboService.getCurrentUser(): the key is revalidated on every call.
AuthValidate(p) ==
  /\ pc[p] = "a_validate"
  /\ \E sdk \in SdkOutcomes :
       LET k == loc[p].decryptedApiKey
           me == getCurrentUser(k, sdk)
       IN /\ trace' = [trace EXCEPT ![p] = Issued(p, "getCurrentUser", ~me.threw)]
          /\ loc' = [loc EXCEPT ![p].sdk = sdk]
          /\ accepted' =
               IF me.threw
               THEN IF isAuthError(me.error)
                    THEN [accepted EXCEPT ![k] = FALSE] ELSE accepted
               ELSE IF me.userInfo.userId # "" /\ me.userInfo.orgId # ""
                    THEN [accepted EXCEPT ![k] = TRUE] ELSE accepted
          /\ IF ~me.threw THEN Goto(p, "a_touch")
             ELSE IF isAuthError(me.error) THEN Goto(p, "a_invalidate")
             ELSE Return(p, AuthFailure(MsgValidateFailed))
  /\ UNCHANGED <<user_api_keys, auth_events, call, now, nonce, ncalls, faulted, ntamper, crypto, router>>

\* Mutant: updateLastUsed rethrows, and the outer catch returns a failure.
AuthTouch_Propagates(p) ==
  /\ pc[p] = "a_touch"
  /\ \E ok \in BOOLEAN :
       /\ trace' = [trace EXCEPT ![p] = Issued(p, "updateLastUsed", ok)]
       /\ faulted' = (faulted \/ ~ok)
       /\ user_api_keys' =
            IF ok THEN updateLastUsed(user_api_keys, call[p].user, issued[p])
            ELSE user_api_keys
       /\ IF ok
          THEN Return(p, AuthSuccess(Some(loc[p].decryptedApiKey)))
          ELSE Return(p, AuthFailure(MsgAuthUnexpected))
  /\ UNCHANGED <<auth_events, call, loc, accepted, now, nonce, ncalls, ntamper, crypto, router>>

\* updateLastUsed(discordUserId) (never throws), then return the client.
AuthTouch(p) ==
  /\ pc[p] = "a_touch"
  /\ \E ok \in BOOLEAN :
       /\ trace' = [trace EXCEPT ![p] = Issued(p, "updateLastUsed", ok)]
       /\ faulted' = (faulted \/ ~ok)
       /\ user_api_keys' =
            IF ok THEN updateLastUsed(user_api_keys, call[p].user, issued[p])
            ELSE user_api_keys
  /\ Return(p, AuthSuccess(Some(loc[p].decryptedApiKey)))
  /\ UNCHANGED <<auth_events, call, loc, accepted, now, nonce, ncalls, ntamper, crypto, router>>

\* isAuthError: updateValidationStatus(discordUserId, "invalid").
AuthInvalidate(p) ==
  /\ pc[p] = "a_invalidate"
  /\ \E ok \in BOOLEAN :
       /\ trace' = [trace EXCEPT ![p] = Issued(p, "updateValidationStatus", ok)]
       /\ faulted' = (faulted \/ ~ok)
       /\ IF ok
          THEN /\ user_api_keys' =
                    updateValidationStatus(user_api_keys, call[p].user, "invalid",
                                           NoUserInfo, issued[p])
               /\ Goto(p, "a_log_invalid")
          ELSE /\ UNCHANGED user_api_keys
               /\ Return(p, AuthFailure(MsgAuthUnexpected))
  /\ UNCHANGED <<auth_events, call, loc, accepted, now, nonce, ncalls, ntamper, crypto, router>>

\* Mutant: the rejected key is put into the metadata of the audit event.
AuthLogInvalid_LogsKey(p) ==
  /\ pc[p] = "a_log_invalid"
  /\ \E ok \in BOOLEAN :
       /\ trace' = [trace EXCEPT ![p] = Issued(p, "logAuthEvent:auth_failure", ok)]
       /\ faulted' = (faulted \/ ~ok)
       /\ auth_events' =
            IF ok
            THEN logAuthEvent(auth_events,
                   AuthEvent(call[p].user, "auth_failure", issued[p],
                             loc[p].decryptedApiKey, NULL))
            ELSE auth_events
  /\ Return(p, AuthFailure(MsgKeyInvalid))
  /\ UNCHANGED <<user_api_keys, call, loc, accepted, now, nonce, ncalls, ntamper, crypto, router>>

\* isAuthError: logAuthEvent("auth_failure", invalid_api_key), return.
AuthLogInvalid(p) ==
  /\ pc[p] = "a_log_invalid"
  /\ \E ok \in BOOLEAN :
       /\ trace' = [trace EXCEPT ![p] = Issued(p, "logAuthEvent:auth_failure", ok)]
       /\ faulted' = (faulted \/ ~ok)
       /\ auth_events' =
            IF ok
            THEN logAuthEvent(auth_events,
                   AuthEvent(call[p].user, "auth_failure", issued[p], "invalid_api_key", NULL))
            ELSE auth_events
  /\ Return(p, AuthFailure(MsgKeyInvalid))
  /\ UNCHANGED <<user_api_keys, call, loc, accepted, now, nonce, ncalls, ntamper, crypto, router>>

(* ---------------------- AuthService.unregisterUser --------------------- *)
StartUnregister(p, u) == Begin(p, "unregister", u, NULL, "u_delete")

\* Mutant: the error of deleteUserApiKey is rethrown as it is.
UnregDelete_Rethrows(p) ==
  /\ pc[p] = "u_delete"
  /\ \E ok \in BOOLEAN :
       /\ trace' = [trace EXCEPT ![p] = Issued(p, "deleteUserApiKey", ok)]
       /\ faulted' = (faulted \/ ~ok)
       /\ IF ok
          THEN /\ user_api_keys' = deleteUserApiKey(user_api_keys, call[p].user)
               /\ Goto(p, "u_log")
          ELSE /\ UNCHANGED user_api_keys
               /\ Return(p, [UnregisterThrew EXCEPT
                               !.error = "Failed to delete user API key"])
  /\ UNCHANGED <<auth_events, call, loc, accepted, now, nonce, ncalls, ntamper, crypto, router>>

\* deleteUserApiKey(discordUserId); a failure is rethrown as a generic error.
UnregDelete(p) ==
  /\ pc[p] = "u_delete"
  /\ \E ok \in BOOLEAN :
       /\ trace' = [trace EXCEPT ![p] = Issued(p, "deleteUserApiKey", ok)]
       /\ faulted' = (faulted \/ ~ok)
       /\ IF ok
          THEN /\ user_api_keys' = deleteUserApiKey(user_api_keys, call[p].user)
               /\ Goto(p, "u_log")
          ELSE /\ UNCHANGED user_api_keys
               /\ Return(p, UnregisterThrew)
  /\ UNCHANGED <<auth_events, call, loc, accepted, now, nonce, ncalls, ntamper, crypto, router>>

\* logAuthEvent("unregister"), return.
UnregLog(p) ==
  /\ pc[p] = "u_log"
  /\ \E ok \in BOOLEAN :
       /\ trace' = [trace EXCEPT ![p] = Issued(p, "logAuthEvent:unregister", ok)]
       /\ faulted' = (faulted \/ ~ok)
       /\ auth_events' =
            IF ok
            THEN logAuthEvent(auth_events,
                   AuthEvent(call[p].user, "unregister", issued[p], NULL, NULL))
            ELSE auth_events
  /\ Return(p, UnregisterDone)
  /\ UNCHANGED <<user_api_keys, call, loc, accepted, now, nonce, ncalls, ntamper, crypto, router>>

(* ------------------------------ environment ---------------------------- *)
\* A stored row is altered outside the service (a byte of the iv changes).
CorruptRow(u) ==
  /\ u \in DOMAIN user_api_keys
  /\ ntamper < MaxTamper
  /\ ntamper' = ntamper + 1
  /\ user_api_keys' = [user_api_keys EXCEPT ![u].encryptionIv = 0]
  /\ UNCHANGED <<auth_events, pc, call, loc, res, trace, accepted, now, issued, nonce, ncalls, faulted, crypto, router>>

(* ----------------------------- specification --------------------------- *)
Next ==
  \/ \E p \in Procs, u \in Users, k \in Keys : StartRegister(p, u, k)
  \/ \E p \in Procs : RegValidate(p)
  \/ \E p \in Procs : RegEncrypt(p)
  \/ \E p \in Procs : RegLookup(p)
  \/ \E p \in Procs : RegUpdateKey(p)
  \/ \E p \in Procs : RegUpdateStatus(p)
  \/ \E p \in Procs : RegLogUpdate(p)
  \/ \E p \in Procs : RegSave(p)
  \/ \E p \in Procs : RegLogRegister(p)
  \/ \E p \in Procs, u \in Users : StartAuthenticate(p, u)
  \/ \E p \in Procs : AuthLookup(p)
  \/ \E p \in Procs : AuthDecrypt(p)
  \/ \E p \in Procs : AuthLogDecrypt(p)
  \/ \E p \in Procs : AuthValidate(p)
  \/ \E p \in Procs : AuthTouch(p)
  \/ \E p \in Procs : AuthInvalidate(p)
  \/ \E p \in Procs : AuthLogInvalid(p)
  \/ \E p \in Procs, u \in Users : StartUnregister(p, u)
  \/ \E p \in Procs : UnregDelete(p)
  \/ \E p \in Procs : UnregLog(p)
  \/ \E u \in Users : CorruptRow(u)

\* Requests may overlap: each await is a point where another request runs.
Spec == Init /\ [][Next]_vars

\* One request at a time: a call starts only when no other call is running.
Quiescent == \A p \in Procs : pc[p] = "idle"
OneAtATime == Cardinality({p \in Procs : pc[p] # "idle"}) <= 1
SpecSeq == Init /\ [][Next /\ OneAtATime']_vars

(* ------------------------------ properties ----------------------------- *)
Registered(u) == u \in DOMAIN user_api_keys
StatusOf(u) == user_api_keys[u].validationStatus
StoredKey(u) == user_api_keys[u].encryptedApiKey.pt

\* Request p returns from a call of method op in this step.
Returns(p, op) == pc[p] # "idle" /\ pc'[p] = "idle" /\ call[p].op = op

\* The collaborator call fn occurs in a call record sequence.
Called(tr, fn) == \E i \in DOMAIN tr : tr[i].fn = fn
CalledOk(tr, fn) == \E i \in DOMAIN tr : tr[i].fn = fn /\ tr[i].ok

\* C1: between calls, in runs where no storage call has failed, a record
\* whose validationStatus is "valid" holds a ciphertext whose plaintext the
\* validator accepted with a non-empty userId and orgId, with no
\* authentication-time rejection of that credential since.
C1_ValidMeansAccepted ==
  (Quiescent /\ ~faulted) =>
    \A u \in Users :
      (Registered(u) /\ StatusOf(u) = "valid") => accepted[StoredKey(u)]

\* The row of u is "valid" after this step and was not before it.
BecomesValid(u) ==
  /\ u \in DOMAIN user_api_keys'
  /\ user_api_keys'[u].validationStatus = "valid"
  /\ ~(Registered(u) /\ StatusOf(u) = "valid")

\* C2: a record becomes "valid" only in a step of registerApiKey, by its
\* insert or by its updateValidationStatus("valid"); no step of
\* authenticateUser or unregisterUser makes a record "valid".
C2_ValidOnlyByRegister ==
  [][\A u \in Users :
       BecomesValid(u) =>
         \E p \in Procs : /\ call[p].op = "register"
                          /\ call[p].user = u
                          /\ pc[p] \in {"r_save", "r_status"}
                          /\ pc'[p] # pc[p]]_vars

\* C2 witness: authenticateUser has returned a client for a record that is
\* marked "invalid", and the record is still "invalid".
C2_Witness ==
  \E p \in Procs :
    /\ pc[p] = "idle"
    /\ call[p].op = "authenticate"
    /\ res[p].success
    /\ loc[p].record # Null
    /\ loc[p].record[1].validationStatus = "invalid"
    /\ Registered(call[p].user)
    /\ StatusOf(call[p].user) = "invalid"

\* What an authenticateUser call read and was told by the validator.
ReadRecord(p) == loc[p].record # Null
ReadStatus(p) == loc[p].record[1].validationStatus
Fns(tr) == [i \in DOMAIN tr |-> tr[i].fn]
IsPrefix(a, b) == Len(a) <= Len(b) /\ \A i \in DOMAIN a : a[i] = b[i]
StorageFns ==
  {"getUserApiKey", "saveUserApiKey", "updateUserApiKey", "deleteUserApiKey",
   "updateLastUsed", "updateValidationStatus", "logAuthEvent:register",
   "logAuthEvent:update", "logAuthEvent:unregister", "logAuthEvent:auth_failure"}
StorageWrites == StorageFns \ {"getUserApiKey"}

\* C3 as stated: an authenticateUser call that read a "valid" record and
\* whose validator answered with an authentication error returns a failure
\* without the onboarding flag, and the record is "invalid" when it returns.
C3_RejectionMarksInvalid ==
  [][\A p \in Procs :
       (/\ Returns(p, "authenticate")
        /\ ReadRecord(p) /\ ReadStatus(p) = "valid"
        /\ loc[p].sdk = "401")
       => /\ ~res'[p].success
          /\ ~res'[p].requiresOnboarding
          /\ call[p].user \in DOMAIN user_api_keys'
          /\ user_api_keys'[call[p].user].validationStatus = "invalid"]_vars

\* C3 amended: with one call at a time, such a call returns a failure without
\* the onboarding flag; the record is "invalid" afterwards when the
\* updateValidationStatus write succeeded, and it is still "valid", with the
\* generic unexpected-error message returned, when the store failed that write.
C3_RejectionMarksInvalidUnlessWriteFails ==
  [][\A p \in Procs :
       (/\ Returns(p, "authenticate")
        /\ ReadRecord(p) /\ ReadStatus(p) = "valid"
        /\ loc[p].sdk = "401")
       => /\ ~res'[p].success
          /\ ~res'[p].requiresOnboarding
          /\ call[p].user \in DOMAIN user_api_keys'
          /\ Called(trace'[p], "updateValidationStatus")
          /\ IF CalledOk(trace'[p], "updateValidationStatus")
             THEN /\ user_api_keys'[call[p].user].validationStatus = "invalid"
                  /\ res'[p].error = MsgKeyInvalid
             ELSE /\ user_api_keys'[call[p].user].validationStatus = "valid"
                  /\ res'[p].error = MsgAuthUnexpected]_vars

\* C3 witness: a call that read a "valid" record was rejected by the
\* validator, wrote the status and returned; the record is "invalid".
C3_Witness ==
  \E p \in Procs :
    /\ pc[p] = "idle" /\ call[p].op = "authenticate"
    /\ ReadRecord(p) /\ ReadStatus(p) = "valid"
    /\ loc[p].sdk = "401"
    /\ CalledOk(trace[p], "updateValidationStatus")
    /\ res[p].returned /\ ~res[p].success /\ res[p].error = MsgKeyInvalid
    /\ Registered(call[p].user) /\ StatusOf(call[p].user) = "invalid"

\* C4: an authenticateUser call whose validator failed with a
\* non-authentication error issues no storage write, leaves the table and the
\* audit log as they are (the record keeps the status that was read), and
\* returns a failure whose message no rejected call returns.
C4_UnavailableLeavesRecord ==
  [][\A p \in Procs :
       /\ (Returns(p, "authenticate") /\ loc'[p].sdk = "503")
          => /\ \A i \in DOMAIN trace'[p] : trace'[p][i].fn \notin StorageWrites
             /\ user_api_keys' = user_api_keys
             /\ auth_events' = auth_events
             /\ call[p].user \in DOMAIN user_api_keys'
             /\ user_api_keys'[call[p].user].validationStatus = ReadStatus(p)
             /\ ~res'[p].success /\ ~res'[p].requiresOnboarding
             /\ res'[p].error = MsgValidateFailed
       /\ (Returns(p, "authenticate") /\ loc'[p].sdk = "401")
          => res'[p].error # MsgValidateFailed]_vars

\* C4 witness: a call on a "valid" record returned the transient failure and
\* the record is still "valid".
C4_Witness ==
  \E p \in Procs :
    /\ pc[p] = "idle" /\ call[p].op = "authenticate"
    /\ loc[p].sdk = "503"
    /\ res[p].returned /\ res[p].error = MsgValidateFailed
    /\ ReadRecord(p) /\ ReadStatus(p) = "valid"
    /\ Registered(call[p].user) /\ StatusOf(call[p].user) = "valid"

\* The stored payload does not open under identity u.
Unreadable(rec, u) ==
  \/ rec.encryptionIv # rec.encryptedApiKey.iv
  \/ rec.encryptionSalt # rec.encryptedApiKey.salt
  \/ rec.encryptedApiKey.aad # u

\* C5: an authenticateUser call whose stored payload fails to decrypt issues
\* logAuthEvent(auth_failure, decryption_failed), which is the last audit
\* event when the write lands, returns the re-registration failure, and
\* never calls the validator.
C5_DecryptFailureSkipsValidator ==
  [][\A p \in Procs :
       (Returns(p, "authenticate") /\ ReadRecord(p)
        /\ Unreadable(loc[p].record[1], call[p].user))
       => /\ ~Called(trace'[p], "getCurrentUser")
          /\ loc'[p].sdk = NULL
          /\ Fns(trace'[p]) =
               <<"getUserApiKey", "decryptApiKey", "logAuthEvent:auth_failure">>
          /\ trace'[p][3].ok
               => /\ Len(auth_events') = Len(auth_events) + 1
                  /\ auth_events'[Len(auth_events')] =
                       AuthEvent(call[p].user, "auth_failure", issued[p],
                                 "decryption_failed", NULL)
          /\ ~res'[p].success /\ ~res'[p].requiresOnboarding
          /\ res'[p].error = MsgDecryptFailed]_vars

\* C5 witness: a call on an altered row returned the re-registration failure
\* and its auth_failure event is the last one in the audit log.
C5_Witness ==
  \E p \in Procs :
    /\ pc[p] = "idle" /\ call[p].op = "authenticate"
    /\ ReadRecord(p) /\ Unreadable(loc[p].record[1], call[p].user)
    /\ res[p].returned /\ res[p].error = MsgDecryptFailed
    /\ Len(auth_events) > 0
    /\ auth_events[Len(auth_events)].eventType = "auth_failure"
    /\ auth_events[Len(auth_events)].reason = "decryption_failed"

\* C6: every authenticateUser call that returns success has, in that call
\* and after decrypting, called the validator on the decrypted key and been
\* answered without an error, whatever status the record it read had.
C6_SuccessMeansRevalidated ==
  [][\A p \in Procs :
       (Returns(p, "authenticate") /\ res'[p].success)
       => /\ Fns(trace'[p]) =
               <<"getUserApiKey", "decryptApiKey", "getCurrentUser", "updateLastUsed">>
          /\ trace'[p][3].ok
          /\ loc'[p].sdk \in {"ok", "incomplete"}
          /\ ReadRecord(p)
          /\ loc'[p].decryptedApiKey = loc[p].record[1].encryptedApiKey.pt
          /\ res'[p].temboService = Some(loc'[p].decryptedApiKey)]_vars

\* C6 witness: a call returned a client after the validator accepted the key.
C6_Witness ==
  \E p \in Procs :
    /\ pc[p] = "idle" /\ call[p].op = "authenticate"
    /\ res[p].success
    /\ loc[p].sdk = "ok"
    /\ CalledOk(trace[p], "getCurrentUser")

\* The three shapes of an AuthResult.
Authenticated(r) == r.success /\ ~r.requiresOnboarding /\ r.temboService # Null
NotRegistered(r) ==
  ~r.success /\ r.requiresOnboarding /\ r.temboService = Null /\ r.error = NULL
Failed(r) ==
  ~r.success /\ ~r.requiresOnboarding /\ r.temboService = Null /\ r.error # NULL

\* C7: authenticateUser returns exactly one of: the client, the onboarding
\* flag, a failure with a message.  It returns the onboarding flag exactly
\* when its lookup succeeded and found no record, and a success carries a
\* client.
C7_ThreeOutcomes ==
  [][\A p \in Procs :
       Returns(p, "authenticate")
       => /\ res'[p].returned /\ ~res'[p].threw
          /\ \/ Authenticated(res'[p])
             \/ NotRegistered(res'[p])
             \/ Failed(res'[p])
          /\ res'[p].requiresOnboarding
               <=> /\ pc[p] = "a_lookup"
                   /\ trace'[p] = <<[fn |-> "getUserApiKey", ok |-> TRUE]>>
                   /\ ~Registered(call[p].user)
          /\ res'[p].success => res'[p].temboService # Null]_vars

\* C7 witness: a call on an identity without a record returned the
\* onboarding flag.
C7_Witness ==
  \E p \in Procs :
    /\ pc[p] = "idle" /\ call[p].op = "authenticate"
    /\ res[p].returned /\ res[p].requiresOnboarding
    /\ ~Registered(call[p].user)

\* C8: with one call at a time, a registerApiKey call that found no record,
\* whose validator accepted the key and whose encryption and storage calls
\* all succeeded, returns success, and then isUserRegistered is true and
\* getUserStatus reports registered, "valid" and the validator's claims.
C8_RegisterNewUser ==
  [][\A p \in Procs :
       (/\ Returns(p, "register")
        /\ loc[p].sdk = "ok"
        /\ CalledOk(trace'[p], "getUserApiKey") /\ ~loc[p].existingUser
        /\ \A i \in DOMAIN trace'[p] :
             trace'[p][i].fn \in StorageWrites \cup {"encryptApiKey"} => trace'[p][i].ok)
       => LET u == call[p].user
              claims == getCurrentUser(call[p].key, "ok").userInfo
          IN /\ res'[p].success
             /\ res'[p].userInfo = claims
             /\ isUserRegistered(user_api_keys', u)
             /\ getUserStatus(user_api_keys', u).registered
             /\ getUserStatus(user_api_keys', u).discordUserId = u
             /\ getUserStatus(user_api_keys', u).validationStatus = "valid"
             /\ getUserStatus(user_api_keys', u).temboUserId = claims.userId
             /\ getUserStatus(user_api_keys', u).temboOrgId = claims.orgId
             /\ getUserStatus(user_api_keys', u).temboEmail = claims.email]_vars

\* C8 witness: a first registration has returned success and the status
\* view shows the identity registered and "valid".
C8_Witness ==
  \E p \in Procs :
    /\ pc[p] = "idle" /\ call[p].op = "register"
    /\ res[p].success /\ ~loc[p].existingUser
    /\ CalledOk(trace[p], "saveUserApiKey")
    /\ getUserStatus(user_api_keys, call[p].user).registered
    /\ getUserStatus(user_api_keys, call[p].user).validationStatus = "valid"
    /\ getUserStatus(user_api_keys, call[p].user).temboUserId = UserIdOf(call[p].key)

\* The validator does not accept key k with complete claims.
NotAccepted(k, sdk) == k = EmptyKey \/ sdk \in {"401", "503", "incomplete"}

\* C9: a registerApiKey call whose key the validator did not accept with a
\* non-empty userId and orgId (rejected, incomplete claims, unavailable, or no
\* usable key) returns a failure having issued no storage or audit call; the
\* table and the audit log are as they were when the call started.
C9_RejectedRegisterTouchesNothing ==
  [][\A p \in Procs :
       /\ (Returns(p, "register") /\ NotAccepted(call[p].key, loc'[p].sdk))
          => /\ pc[p] = "r_validate"
             /\ ~res'[p].success /\ res'[p].error = MsgInvalidKey
             /\ res'[p].userInfo = NoUserInfo
             /\ \A i \in DOMAIN trace'[p] :
                  trace'[p][i].fn \notin StorageFns \cup {"encryptApiKey"}
             /\ user_api_keys' = user_api_keys
             /\ auth_events' = auth_events
       /\ (pc[p] = "idle" /\ pc'[p] = "r_validate")
          => /\ user_api_keys' = user_api_keys
             /\ auth_events' = auth_events]_vars

\* C9 witness: a registration with incomplete claims was refused while a
\* record for the identity exists.
C9_Witness ==
  \E p \in Procs :
    /\ pc[p] = "idle" /\ call[p].op = "register"
    /\ loc[p].sdk = "incomplete"
    /\ res[p].returned /\ ~res[p].success
    /\ trace[p] = <<[fn |-> "getCurrentUser", ok |-> FALSE]>>
    /\ Registered(call[p].user)

\* The collaborator calls of the two branches of registerApiKey, in order.
UpdatePath ==
  <<"getCurrentUser", "encryptApiKey", "getUserApiKey", "updateUserApiKey",
    "updateValidationStatus", "logAuthEvent:update">>
InsertPath ==
  <<"getCurrentUser", "encryptApiKey", "getUserApiKey", "saveUserApiKey",
    "logAuthEvent:register">>

\* C10: after validation and encryption, registerApiKey looks the record up
\* once and then follows one of two paths, chosen by what the lookup found:
\* updateUserApiKey, updateValidationStatus("valid", claims), an "update"
\* event; or saveUserApiKey with status "valid", a "register" event.
C10_RegisterPaths ==
  [][\A p \in Procs :
       LET u == call[p].user
           claims == loc[p].validation.userInfo
           PathOf(existing) == IF existing THEN UpdatePath ELSE InsertPath
       IN
       \* the lookup decides the path
       /\ (pc[p] = "r_lookup" /\ pc'[p] # "idle" /\ pc'[p] # pc[p])
          => /\ loc'[p].existingUser = Registered(u)
             /\ pc'[p] = IF Registered(u) THEN "r_update" ELSE "r_save"
       \* every call issued after the lookup is the next one of that path
       /\ (call[p].op = "register" /\ pc[p] \notin {"idle", "r_validate", "r_encrypt", "r_lookup"}
           /\ trace'[p] # trace[p])
          => IsPrefix(Fns(trace'[p]), PathOf(loc[p].existingUser))
       \* a successful call has walked its whole path
       /\ (Returns(p, "register") /\ res'[p].success)
          => Fns(trace'[p]) = PathOf(loc[p].existingUser)
       \* the status written is "valid", with the validator's claims
       /\ (pc[p] \in {"r_status", "r_save"} /\ pc'[p] \in {"r_log_update", "r_log_register"})
          => /\ u \in DOMAIN user_api_keys' => 
                  /\ user_api_keys'[u].validationStatus = "valid"
                  /\ user_api_keys'[u].temboUserId = claims.userId
                  /\ user_api_keys'[u].temboOrgId = claims.orgId
                  /\ user_api_keys'[u].temboEmail = claims.email
             /\ pc[p] = "r_save" => u \in DOMAIN user_api_keys'
       \* the audit event is "register" exactly when the lookup found nothing
       /\ (call[p].op = "register" /\ pc[p] # "idle" /\ pc'[p] # pc[p]
           /\ auth_events' # auth_events)
          => /\ Len(auth_events') = Len(auth_events) + 1
             /\ auth_events'[Len(auth_events')] =
                  AuthEvent(u, IF loc[p].existingUser THEN "update" ELSE "register",
                            issued[p], NULL, claims.userId)]_vars

\* C10 witness: a re-registration has walked the update path and its
\* "update" event is the last one in the audit log.
C10_Witness ==
  \E p \in Procs :
    /\ pc[p] = "idle" /\ call[p].op = "register"
    /\ res[p].success /\ loc[p].existingUser
    /\ Fns(trace[p]) = UpdatePath
    /\ Len(auth_events) > 0
    /\ auth_events[Len(auth_events)].eventType = "update"

\* A registerApiKey call for identity u is in progress.
RegisterInProgress(u) ==
  \E p \in Procs : pc[p] # "idle" /\ call[p].op = "register" /\ call[p].user = u

\* C11: whenever no registerApiKey call for an identity is in progress, the
\* record of that identity is not "pending": every call that wrote "pending"
\* through updateUserApiKey has replaced it before it returned, whatever it
\* returned.
C11_PendingOnlyTransient ==
  \A u \in Users :
    (Registered(u) /\ StatusOf(u) = "pending") => RegisterInProgress(u)

\* Request p is a registerApiKey call for u whose key the validator accepted.
AcceptedRegister(p, u) ==
  call[p].op = "register" /\ call[p].user = u /\ loc[p].validation.valid

\* C12: two registerApiKey calls for one identity, both accepted by the
\* validator, with no backend failure: every ciphertext write of either call
\* that reaches the store (INSERT or UPDATE) leaves the record holding that
\* call's ciphertext, so the write that reaches the store last decides it; and
\* once both calls have returned there is a record and it is "valid".
C12_LastWriterWins ==
  [][\A p \in Procs : \A q \in Procs \ {p} :
       LET u == call[p].user
       IN (AcceptedRegister(p, u) /\ AcceptedRegister(q, u) /\ ~faulted')
          => /\ (pc[p] \in {"r_save", "r_update"} /\ pc'[p] # pc[p])
                => /\ u \in DOMAIN user_api_keys'
                   /\ user_api_keys'[u].encryptedApiKey = loc[p].encrypted.ciphertext
             /\ (Returns(p, "register") /\ pc[q] = "idle" /\ res[q].returned)
                => /\ u \in DOMAIN user_api_keys'
                   /\ user_api_keys'[u].validationStatus = "valid"]_vars

\* C13: with one call at a time, an unregisterUser call whose
\* deleteUserApiKey the store did not fail returns without throwing and
\* leaves no record: isUserRegistered is false and getUserStatus reports
\* nothing.  When there was no record the credential table is unchanged.
\* The call throws only when the store failed the delete.
C13_UnregisterDeletes ==
  [][\A p \in Procs :
       LET u == call[p].user
       IN /\ (call[p].op = "unregister" /\ pc[p] = "u_delete" /\ pc'[p] # pc[p]
              /\ ~Registered(u))
             => /\ user_api_keys' = user_api_keys
                /\ trace'[p][1].ok => pc'[p] = "u_log"
          /\ Returns(p, "unregister")
             => /\ res'[p].threw <=> ~CalledOk(trace'[p], "deleteUserApiKey")
                /\ CalledOk(trace'[p], "deleteUserApiKey")
                   => /\ res'[p] = UnregisterDone
                      /\ ~isUserRegistered(user_api_keys', u)
                      /\ getUserStatus(user_api_keys', u) = [registered |-> FALSE]
                      /\ user_api_keys' = user_api_keys]_vars

\* C13 witness: the record of an earlier registration was removed by one
\* unregisterUser call, and a second call on the now unknown identity has
\* returned normally as well.
C13_Witness ==
  \E p \in Procs : \E q \in Procs \ {p} :
    /\ Quiescent
    /\ call[p].op = "unregister" /\ call[q].op = "unregister"
    /\ res[p] = UnregisterDone /\ res[q] = UnregisterDone
    /\ Len(auth_events) = 3
    /\ auth_events[1].eventType = "register"
    /\ auth_events[2].eventType = "unregister"
    /\ auth_events[3].eventType = "unregister"
    /\ ~isUserRegistered(user_api_keys, call[p].user)

\* The steps at which a call issues its logAuthEvent, and what the call
\* returns after each of them.
AuditSteps == {"r_log_update", "r_log_register", "a_log_decrypt", "a_log_invalid", "u_log"}
ResultAfterAudit(p) ==
  CASE pc[p] \in {"r_log_update", "r_log_register"} ->
         RegisterSuccess(loc[p].validation.userInfo)
    [] pc[p] = "a_log_decrypt" -> AuthFailure(MsgDecryptFailed)
    [] pc[p] = "a_log_invalid" -> AuthFailure(MsgKeyInvalid)
    [] OTHER -> UnregisterDone

\* C14: the audit-event write of a call decides nothing but the audit log:
\* whether it succeeds or fails, the call returns the result fixed by the
\* state before the write, and the credential table is left as it is; a
\* failed write leaves the audit log as it is, a successful one appends one
\* event.
C14_AuditBestEffort ==
  [][\A p \in Procs :
       (pc[p] \in AuditSteps /\ pc'[p] # pc[p])
       => LET audit == trace'[p][Len(trace'[p])]
          IN /\ Len(trace'[p]) = Len(trace[p]) + 1
             /\ pc'[p] = "idle"
             /\ res'[p] = ResultAfterAudit(p)
             /\ user_api_keys' = user_api_keys
             /\ IF audit.ok
                THEN /\ Len(auth_events') = Len(auth_events) + 1
                     /\ SubSeq(auth_events', 1, Len(auth_events)) = auth_events
                ELSE auth_events' = auth_events]_vars

\* C14 witness: a first registration returned success and stored a "valid"
\* record although its audit-event write failed.
C14_Witness ==
  \E p \in Procs :
    /\ pc[p] = "idle" /\ call[p].op = "register"
    /\ res[p].success
    /\ Len(trace[p]) = 5
    /\ trace[p][5] = [fn |-> "logAuthEvent:register", ok |-> FALSE]
    /\ Registered(call[p].user) /\ StatusOf(call[p].user) = "valid"
    /\ \A i \in DOMAIN auth_events : auth_events[i].timestamp # now

\* The Record Store operations by error policy, and what each AuthService
\* method hands to its caller when a store call rejects (its catch block).
CriticalFns ==
  {"getUserApiKey", "saveUserApiKey", "updateUserApiKey", "updateValidationStatus",
   "deleteUserApiKey"}
BestEffortFns == StorageFns \ CriticalFns
CatchResult(op) ==
  CASE op = "register" -> RegisterFailure(MsgRegUnexpected)
    [] op = "authenticate" -> AuthFailure(MsgAuthUnexpected)
    [] OTHER -> UnregisterThrew

\* C15: a failed getUserApiKey, saveUserApiKey, updateUserApiKey,
\* updateValidationStatus or deleteUserApiKey rejects: the calling method
\* stops at that call with the outcome of its catch block and nothing is
\* written.  updateLastUsed and logAuthEvent resolve whether or not the
\* backend failed: the calling method goes on to its normal result.  Only a
\* failed critical call ends a method in its catch block.
C15_ErrorPolicy ==
  [][\A p \in Procs :
       (pc[p] # "idle" /\ Len(trace'[p]) = Len(trace[p]) + 1
        /\ trace'[p][Len(trace'[p])].fn \in StorageFns)
       => LET e == trace'[p][Len(trace'[p])]
              caught == pc'[p] = "idle" /\ res'[p] = CatchResult(call[p].op)
          IN /\ (e.fn \in CriticalFns /\ ~e.ok)
                => /\ caught
                   /\ user_api_keys' = user_api_keys
                   /\ auth_events' = auth_events
             /\ (e.fn \in CriticalFns /\ e.ok) => ~caught
             /\ e.fn \in BestEffortFns
                => /\ ~caught
                   /\ pc'[p] = "idle"
                   /\ res'[p] = IF e.fn = "updateLastUsed"
                                THEN AuthSuccess(Some(loc[p].decryptedApiKey))
                                ELSE ResultAfterAudit(p)
                   /\ ~e.ok => /\ user_api_keys' = user_api_keys
                               /\ auth_events' = auth_events]_vars

\* C15 witness: one call returned a client although its updateLastUsed
\* failed, and another call ended in its catch block on a failed
\* updateUserApiKey.
C15_Witness ==
  \E p \in Procs : \E q \in Procs \ {p} :
    /\ pc[p] = "idle" /\ call[p].op = "authenticate"
    /\ res[p].success
    /\ trace[p][Len(trace[p])] = [fn |-> "updateLastUsed", ok |-> FALSE]
    /\ pc[q] = "idle" /\ call[q].op = "register"
    /\ res[q] = RegisterFailure(MsgRegUnexpected)
    /\ trace[q][Len(trace[q])] = [fn |-> "updateUserApiKey", ok |-> FALSE]

\* The failure messages each method can return, and the collaborator calls
\* whose failure is not swallowed by the Record Store.
AuthMessages ==
  {MsgDecryptFailed, MsgInitFailed, MsgKeyInvalid, MsgValidateFailed, MsgAuthUnexpected}
RegisterMessages == {MsgInvalidKey, MsgEncryptFailed, MsgRegUnexpected}
FailedCall(tr) ==
  \E i \in DOMAIN tr : ~tr[i].ok /\ tr[i].fn \notin BestEffortFns

\* C16: authenticateUser and registerApiKey never throw: they return a
\* success, the onboarding flag, or success = false with one of their own
\* messages, and a failure value whenever a store, encryption or validator
\* call of theirs failed.  unregisterUser returns normally, or throws the
\* generic "Failed to unregister user" error, and then it has issued no
\* "unregister" audit event.
C16_NoRawException ==
  [][\A p \in Procs :
       /\ Returns(p, "authenticate")
          => /\ res'[p].returned /\ ~res'[p].threw
             /\ \/ res'[p].success /\ res'[p].error = NULL
                \/ res'[p] = AuthOnboarding
                \/ ~res'[p].success /\ res'[p].error \in AuthMessages
             /\ (FailedCall(trace'[p]) \/ pc[p] = "a_decrypt")
                => ~res'[p].success /\ res'[p].error \in AuthMessages
       /\ Returns(p, "register")
          => /\ res'[p].returned /\ ~res'[p].threw
             /\ \/ res'[p].success /\ res'[p].error = NULL
                \/ ~res'[p].success /\ res'[p].error \in RegisterMessages
             /\ FailedCall(trace'[p])
                => ~res'[p].success /\ res'[p].error \in RegisterMessages
       /\ Returns(p, "unregister")
          => \/ res'[p] = UnregisterDone
             \/ /\ res'[p].threw /\ res'[p].error = MsgUnregisterFailed
                /\ ~Called(trace'[p], "logAuthEvent:unregister")
                /\ auth_events' = auth_events]_vars

\* C16 witness: an unregisterUser call has thrown the generic error after
\* the store failed its delete; the record and the audit log are untouched.
C16_Witness ==
  \E p \in Procs :
    /\ pc[p] = "idle" /\ call[p].op = "unregister"
    /\ res[p] = UnregisterThrew
    /\ trace[p] = <<[fn |-> "deleteUserApiKey", ok |-> FALSE]>>
    /\ Registered(call[p].user)
    /\ \A i \in DOMAIN auth_events : auth_events[i].eventType # "unregister"

\* C17: a registerApiKey call whose validator was unavailable (503, network)
\* returns a failure that is not the rejected-credential failure ("Invalid
\* API key ..."), and leaves the credential table unchanged.
C17_UnavailableDistinctFromRejected ==
  [][\A p \in Procs :
       (Returns(p, "register") /\ loc'[p].sdk = "503")
       => /\ ~res'[p].success
          /\ res'[p] # RegisterFailure(MsgInvalidKey)
          /\ user_api_keys' = user_api_keys]_vars

\* C18: when an authenticateUser call returns success and the store performed
\* its updateLastUsed write on the record of the identity, the record has
\* lastUsedAt equal to the time of that authentication (the Date.now() the
\* call read when it issued the write), which is not earlier than the
\* lastUsedAt before the write nor than registeredAt.
C18_SuccessTouchesLastUsed ==
  [][\A p \in Procs :
       (/\ Returns(p, "authenticate") /\ res'[p].success
        /\ trace'[p][Len(trace'[p])] = [fn |-> "updateLastUsed", ok |-> TRUE]
        /\ Registered(call[p].user))
       => LET u == call[p].user
          IN /\ u \in DOMAIN user_api_keys'
             /\ user_api_keys'[u].lastUsedTimestamp = issued[p]
             /\ user_api_keys'[u].lastUsedTimestamp >= user_api_keys[u].lastUsedTimestamp
             /\ user_api_keys'[u].lastUsedTimestamp >= user_api_keys'[u].registrationTimestamp]_vars

\* C19: with one call at a time and no failed store call, when a call that
\* validated the identity's stored credential returns (authenticateUser
\* answered by the validator with an acceptance or a rejection, or a
\* successful registerApiKey), the record's lastValidatedAt is the time of
\* that validation.
C19_LastValidatedIsLatest ==
  [][\A p \in Procs :
       LET u == call[p].user
           validated ==
             \/ Returns(p, "authenticate") /\ loc'[p].sdk \in {"ok", "401"}
             \/ Returns(p, "register") /\ res'[p].success
       IN (validated /\ ~faulted' /\ u \in DOMAIN user_api_keys')
          => user_api_keys'[u].lastValidatedTimestamp = now]_vars

\* C20: no step changes the registeredAt of a record that exists before and
\* after it (update path of registerApiKey, every step of authenticateUser,
\* updateLastUsed, out-of-band alteration of the payload); a record that
\* appears was inserted by saveUserApiKey in that step, with registeredAt the
\* time the inserting call read when it issued the insert.
C20_RegisteredAtFrame ==
  [][\A u \in Users :
       /\ (Registered(u) /\ u \in DOMAIN user_api_keys')
          => user_api_keys'[u].registrationTimestamp =
               user_api_keys[u].registrationTimestamp
       /\ (~Registered(u) /\ u \in DOMAIN user_api_keys')
          => \E p \in Procs : /\ pc[p] = "r_save" /\ pc'[p] = "r_log_register"
                              /\ call[p].user = u
                              /\ user_api_keys'[u].registrationTimestamp = issued[p]]_vars

\* C20 witness: a record registered at time 1 was re-registered through the
\* update path at a later time and still has registeredAt = 1.
C20_Witness ==
  \E p \in Procs :
    /\ pc[p] = "idle" /\ call[p].op = "register"
    /\ res[p].success /\ loc[p].existingUser
    /\ Registered(call[p].user)
    /\ user_api_keys[call[p].user].registrationTimestamp = 1
    /\ user_api_keys[call[p].user].lastValidatedTimestamp > 1
    /\ user_api_keys[call[p].user].encryptedApiKey = loc[p].encrypted.ciphertext

(* ------------------- EncryptionService, at byte level ------------------ *)
\* A JavaScript string is its sequence of UTF-16 code units; a buffer is a
\* sequence of bytes; a base64 text is the sequence of the indices of its
\* characters in the base64 alphabet (0..63), with Base64Pad for "=",
\* Base64Space for an ASCII whitespace character (space, tab, LF, FF, CR) and
\* Base64Junk for any other character outside the alphabet.
MaxTextLen == 2

CodeUnits == {97, 233, 65279, 55357, 56832}
Texts == UNION {[1..n -> CodeUnits] : n \in 0..MaxTextLen}
Identities == {<<49>>, <<50>>, <<55357>>, <<65533>>}

IsHighSurrogate(cu) == cu >= 55296 /\ cu <= 56319
IsLowSurrogate(cu) == cu >= 56320 /\ cu <= 57343
ReplacementChar == <<65533>>

\* The UTF-8 bytes of one code point.
Utf8Bytes(cp) ==
  IF cp < 128 THEN <<cp>>
  ELSE IF cp < 2048 THEN <<192 + (cp \div 64), 128 + (cp % 64)>>
  ELSE IF cp < 65536
       THEN <<224 + (cp \div 4096), 128 + ((cp \div 64) % 64), 128 + (cp % 64)>>
  ELSE <<240 + (cp \div 262144), 128 + ((cp \div 4096) % 64),
         128 + ((cp \div 64) % 64), 128 + (cp % 64)>>

\* new TextEncoder().encode(s): the string is converted to scalar values
\* first, so an unpaired surrogate is encoded as U+FFFD.
RECURSIVE EncodeFrom(_, _)
EncodeFrom(s, i) ==
  IF i > Len(s) THEN << >>
  ELSE IF IsHighSurrogate(s[i]) /\ i < Len(s) /\ IsLowSurrogate(s[i + 1])
       THEN Utf8Bytes(65536 + (s[i] - 55296) * 1024 + (s[i + 1] - 56320))
              \o EncodeFrom(s, i + 2)
  ELSE IF IsHighSurrogate(s[i]) \/ IsLowSurrogate(s[i])
       THEN Utf8Bytes(ReplacementChar[1]) \o EncodeFrom(s, i + 1)
  ELSE Utf8Bytes(s[i]) \o EncodeFrom(s, i + 1)

TextEncoder_encode(s) == EncodeFrom(s, 1)

IsContinuation(b, i) == i <= Len(b) /\ b[i] >= 128 /\ b[i] <= 191

\* The code units of a scalar value.
CodeUnitsOf(cp) ==
  IF cp < 65536 THEN <<cp>>
  ELSE <<55296 + ((cp - 65536) \div 1024), 56320 + ((cp - 65536) % 1024)>>

\* The UTF-8 decoder after a lead byte: the number of continuation bytes it
\* needs, and the range it accepts for the first of them (the later ones
\* are 80..BF).
BytesNeeded(lead) ==
  IF lead >= 194 /\ lead <= 223 THEN 1
  ELSE IF lead >= 224 /\ lead <= 239 THEN 2
  ELSE IF lead >= 240 /\ lead <= 244 THEN 3
  ELSE 0
LowerBoundary(lead) == IF lead = 224 THEN 160 ELSE IF lead = 240 THEN 144 ELSE 128
UpperBoundary(lead) == IF lead = 237 THEN 159 ELSE IF lead = 244 THEN 143 ELSE 191

\* The continuation bytes the decoder has consumed after the lead byte at i
\* when the sequence is complete, the input ends, or a byte that does not
\* continue it comes (that byte is decoded again on its own).
BytesSeen(b, i) ==
  LET n == BytesNeeded(b[i])
  IN IF \/ n = 0
        \/ i + 1 > Len(b)
        \/ b[i + 1] < LowerBoundary(b[i])
        \/ b[i + 1] > UpperBoundary(b[i]) THEN 0
     ELSE IF n = 1 \/ ~IsContinuation(b, i + 2) THEN 1
     ELSE IF n = 2 \/ ~IsContinuation(b, i + 3) THEN 2
     ELSE 3

\* The scalar value of the complete sequence of 1 + n bytes at i.
CodePoint(b, i, n) ==
  IF n = 1 THEN (b[i] - 192) * 64 + (b[i + 1] - 128)
  ELSE IF n = 2
       THEN (b[i] - 224) * 4096 + (b[i + 1] - 128) * 64 + (b[i + 2] - 128)
  ELSE (b[i] - 240) * 262144 + (b[i + 1] - 128) * 4096
         + (b[i + 2] - 128) * 64 + (b[i + 3] - 128)

\* A sequence that is cut short or interrupted gives one U+FFFD for the
\* bytes consumed so far; a byte that cannot start a sequence gives one.
RECURSIVE DecodeFrom(_, _)
DecodeFrom(b, i) ==
  IF i > Len(b) THEN << >>
  ELSE IF b[i] < 128 THEN <<b[i]>> \o DecodeFrom(b, i + 1)
  ELSE LET n == BytesNeeded(b[i])
           seen == BytesSeen(b, i)
       IN IF n = 0 \/ seen < n
          THEN ReplacementChar \o DecodeFrom(b, i + 1 + seen)
          ELSE CodeUnitsOf(CodePoint(b, i, n)) \o DecodeFrom(b, i + n + 1)

\* new TextDecoder().decode(b): UTF-8, not fatal, ignoreBOM false: a leading
\* byte order mark EF BB BF is dropped, a malformed sequence gives U+FFFD.
TextDecoder_decode(b) ==
  IF Len(b) >= 3 /\ b[1] = 239 /\ b[2] = 187 /\ b[3] = 191
  THEN DecodeFrom(b, 4)
  ELSE DecodeFrom(b, 1)

Base64Pad == 64
Base64Junk == 65
Base64Space == 66

\* arrayBufferToBase64: btoa of the bytes, three bytes to four characters.
RECURSIVE Base64From(_, _)
Base64From(b, i) ==
  IF i > Len(b) THEN << >>
  ELSE IF i + 2 <= Len(b)
       THEN LET x == b[i] * 65536 + b[i + 1] * 256 + b[i + 2]
            IN <<x \div 262144, (x \div 4096) % 64, (x \div 64) % 64, x % 64>>
                 \o Base64From(b, i + 3)
  ELSE IF i + 1 <= Len(b)
       THEN LET x == b[i] * 65536 + b[i + 1] * 256
            IN <<x \div 262144, (x \div 4096) % 64, (x \div 64) % 64, Base64Pad>>
  ELSE LET x == b[i] * 65536
       IN <<x \div 262144, (x \div 4096) % 64, Base64Pad, Base64Pad>>

arrayBufferToBase64(buffer) == Base64From(buffer, 1)

\* atob removes the ASCII whitespace of the text first.
StripWhitespace(t) == SelectSeq(t, LAMBDA c : c # Base64Space)

\* atob drops the padding of a text whose length is a multiple of four.
StripPadding(t) ==
  IF Len(t) % 4 = 0 /\ Len(t) > 0 /\ t[Len(t)] = Base64Pad
  THEN IF t[Len(t) - 1] = Base64Pad
       THEN SubSeq(t, 1, Len(t) - 2)
       ELSE SubSeq(t, 1, Len(t) - 1)
  ELSE t

RECURSIVE BytesFrom(_, _)
BytesFrom(t, i) ==
  IF i > Len(t) THEN << >>
  ELSE IF i + 3 <= Len(t)
       THEN LET x == t[i] * 262144 + t[i + 1] * 4096 + t[i + 2] * 64 + t[i + 3]
            IN <<x \div 65536, (x \div 256) % 256, x % 256>> \o BytesFrom(t, i + 4)
  ELSE IF i + 2 <= Len(t)
       THEN LET x == t[i] * 262144 + t[i + 1] * 4096 + t[i + 2] * 64
            IN <<x \div 65536, (x \div 256) % 256>>
  ELSE LET x == t[i] * 262144 + t[i + 1] * 4096
       IN <<x \div 65536>>

\* base64ToArrayBuffer: atob (forgiving base64) ignores ASCII whitespace and
\* throws InvalidCharacterError for any other character outside the
\* alphabet and for a length that leaves one character over.
base64ToArrayBuffer(base64) ==
  LET t == StripPadding(StripWhitespace(base64))
  IN IF (\E i \in DOMAIN t : t[i] < 0 \/ t[i] > 63) \/ Len(t) % 4 = 1
     THEN [threw |-> TRUE, error |-> "InvalidCharacterError", bytes |-> << >>]
     ELSE [threw |-> FALSE, error |-> NULL, bytes |-> BytesFrom(t, 1)]

\* generateSalt (16 random bytes) and generateIV (12 random bytes): the
\* values crypto.getRandomValues can return, two of each here.
SaltChoices == {[i \in 1..16 |-> 0], [i \in 1..16 |-> 16 * i - 1]}
IvChoices == {[i \in 1..12 |-> 255], [i \in 1..12 |-> i]}

\* The master key the service was constructed with: 32 bytes 07.
MasterKey == [i \in 1..32 |-> 7]

\* deriveKey: PBKDF2-SHA-256 of the master key under the salt; the derived
\* key is not extractable, it is known by what it was derived from.
deriveKey(salt) == [masterKey |-> MasterKey, salt |-> salt]

\* The first key stream block of AES-256-GCM (the cipher applied to the
\* counter block iv || 00000002) under the key that PBKDF2-SHA-256 with
\* 100000 iterations derives from MasterKey and the salt, for the salts and
\* ivs of SaltChoices and IvChoices.
KeyStreamBlocks ==
  {  [salt |-> <<0, 0, 0, 0, 0, 0, 0, 0, 0, 0, 0, 0, 0, 0, 0, 0>>,
    iv |-> <<255, 255, 255, 255, 255, 255, 255, 255, 255, 255, 255, 255>>,
    block |-> <<223, 54, 38, 57, 250, 58, 195, 75, 71, 113, 63, 199, 141, 91, 207, 37>>],
   [salt |-> <<0, 0, 0, 0, 0, 0, 0, 0, 0, 0, 0, 0, 0, 0, 0, 0>>,
    iv |-> <<1, 2, 3, 4, 5, 6, 7, 8, 9, 10, 11, 12>>,
    block |-> <<8, 254, 225, 43, 162, 61, 66, 48, 47, 27, 195, 63, 67, 121, 155, 24>>],
   [salt |-> <<15, 31, 47, 63, 79, 95, 111, 127, 143, 159, 175, 191, 207, 223, 239, 255>>,
    iv |-> <<255, 255, 255, 255, 255, 255, 255, 255, 255, 255, 255, 255>>,
    block |-> <<195, 15, 58, 101, 234, 83, 34, 198, 136, 21, 200, 112, 218, 228, 108, 21>>],
   [salt |-> <<15, 31, 47, 63, 79, 95, 111, 127, 143, 159, 175, 191, 207, 223, 239, 255>>,
    iv |-> <<1, 2, 3, 4, 5, 6, 7, 8, 9, 10, 11, 12>>,
    block |-> <<0, 51, 26, 242, 243, 113, 226, 219, 137, 190, 224, 37, 8, 114, 191, 47>>]}

\* The key stream byte of AES-GCM at position i (1..16) under (key, iv).
KeyStream(key, iv, i) ==
  (CHOOSE e \in KeyStreamBlocks :
     key.masterKey = MasterKey /\ e.salt = key.salt /\ e.iv = iv).block[i]

\* The exclusive or of two bytes.
RECURSIVE XorBits(_, _, _)
XorBits(x, y, n) ==
  IF n = 0 THEN 0
  ELSE ((x + y) % 2) + 2 * XorBits(x \div 2, y \div 2, n - 1)
Xor(x, y) == XorBits(x, y, 8)

\* crypto.subtle.encrypt(AES-GCM): the plaintext bytes masked with the key
\* stream, followed by the authentication tag, which binds key, iv,
\* additional data and body; OperationError for an empty iv.
subtle_encrypt(key, iv, additionalData, plaintextBuffer) ==
  IF Len(iv) = 0
  THEN [threw |-> TRUE, error |-> "OperationError", body |-> << >>, tag |-> NULL]
  ELSE LET body == [i \in DOMAIN plaintextBuffer |->
                      Xor(plaintextBuffer[i], KeyStream(key, iv, i))]
       IN [threw |-> FALSE, error |-> NULL, body |-> body,
           tag |-> [key |-> key, iv |-> iv, aad |-> additionalData, body |-> body]]

\* Mutant: the additional data is left out of the tag verification.
subtle_decrypt_IgnoresAad(key, iv, additionalData, ciphertextBuffer) ==
  IF /\ Len(iv) > 0
     /\ ciphertextBuffer.tag.key = key
     /\ ciphertextBuffer.tag.iv = iv
     /\ ciphertextBuffer.tag.body = ciphertextBuffer.body
  THEN [threw |-> FALSE, error |-> NULL,
        bytes |-> [i \in DOMAIN ciphertextBuffer.body |->
                     Xor(ciphertextBuffer.body[i], KeyStream(key, iv, i))]]
  ELSE [threw |-> TRUE, error |-> "OperationError", bytes |-> << >>]

\* crypto.subtle.decrypt(AES-GCM): OperationError unless the tag verifies.
subtle_decrypt(key, iv, additionalData, ciphertextBuffer) ==
  IF /\ Len(iv) > 0
     /\ ciphertextBuffer.tag =
          [key |-> key, iv |-> iv, aad |-> additionalData,
           body |-> ciphertextBuffer.body]
  THEN [threw |-> FALSE, error |-> NULL,
        bytes |-> [i \in DOMAIN ciphertextBuffer.body |->
                     Xor(ciphertextBuffer.body[i], KeyStream(key, iv, i))]]
  ELSE [threw |-> TRUE, error |-> "OperationError", bytes |-> << >>]

MsgDecryptionFailed ==
  "Decryption failed. The data may be corrupted or the user ID may not match."

\* The error encryptApiKey throws from its catch block; the message of the
\* cause follows the prefix.
MsgEncryptionFailed == "Encryption failed: "

\* encryptApiKey at byte level, for the salt and iv that were generated.
\* The base64 text of the ciphertext buffer is the text of its body with the
\* tag carried along.
EncryptionService_encryptApiKey(plaintext, discordUserId, salt, iv) ==
  LET key == deriveKey(salt)
      plaintextBuffer == TextEncoder_encode(plaintext)
      additionalData == TextEncoder_encode(discordUserId)
      ciphertextBuffer == subtle_encrypt(key, iv, additionalData, plaintextBuffer)
  IN IF ciphertextBuffer.threw
     THEN [threw |-> TRUE, error |-> MsgEncryptionFailed, data |-> NULL]
     ELSE [threw |-> FALSE, error |-> NULL,
           data |-> [ciphertext |-> [body |-> arrayBufferToBase64(ciphertextBuffer.body),
                                     tag |-> ciphertextBuffer.tag],
                     iv |-> arrayBufferToBase64(iv),
                     salt |-> arrayBufferToBase64(salt)]]

\* Mutant: the decrypted bytes are turned into a string one byte at a time.
EncryptionService_decryptApiKey_Latin1(encrypted, discordUserId) ==
  LET body == base64ToArrayBuffer(encrypted.ciphertext.body)
      iv == base64ToArrayBuffer(encrypted.iv)
      salt == base64ToArrayBuffer(encrypted.salt)
      key == deriveKey(salt.bytes)
      additionalData == TextEncoder_encode(discordUserId)
      opened == subtle_decrypt(key, iv.bytes, additionalData,
                               [body |-> body.bytes, tag |-> encrypted.ciphertext.tag])
  IN IF body.threw \/ iv.threw \/ salt.threw \/ opened.threw
     THEN [threw |-> TRUE, error |-> MsgDecryptionFailed, plaintext |-> << >>]
     ELSE [threw |-> FALSE, error |-> NULL, plaintext |-> opened.bytes]

\* Mutant: the error of the sub-step that failed is passed on.
EncryptionService_decryptApiKey_LeaksCause(encrypted, discordUserId) ==
  LET body == base64ToArrayBuffer(encrypted.ciphertext.body)
      iv == base64ToArrayBuffer(encrypted.iv)
      salt == base64ToArrayBuffer(encrypted.salt)
      key == deriveKey(salt.bytes)
      additionalData == TextEncoder_encode(discordUserId)
      opened == subtle_decrypt(key, iv.bytes, additionalData,
                               [body |-> body.bytes, tag |-> encrypted.ciphertext.tag])
  IN IF body.threw \/ iv.threw \/ salt.threw
     THEN [threw |-> TRUE, error |-> "InvalidCharacterError", plaintext |-> << >>]
     ELSE IF opened.threw
     THEN [threw |-> TRUE, error |-> MsgDecryptionFailed, plaintext |-> << >>]
     ELSE [threw |-> FALSE, error |-> NULL,
           plaintext |-> TextDecoder_decode(opened.bytes)]

\* decryptApiKey at byte level: every failure inside the try block is
\* replaced by one generic error.
EncryptionService_decryptApiKey(encrypted, discordUserId) ==
  LET body == base64ToArrayBuffer(encrypted.ciphertext.body)
      iv == base64ToArrayBuffer(encrypted.iv)
      salt == base64ToArrayBuffer(encrypted.salt)
      key == deriveKey(salt.bytes)
      additionalData == TextEncoder_encode(discordUserId)
      opened == subtle_decrypt(key, iv.bytes, additionalData,
                               [body |-> body.bytes, tag |-> encrypted.ciphertext.tag])
  IN IF body.threw \/ iv.threw \/ salt.threw \/ opened.threw
     THEN [threw |-> TRUE, error |-> MsgDecryptionFailed, plaintext |-> << >>]
     ELSE [threw |-> FALSE, error |-> NULL,
           plaintext |-> TextDecoder_decode(opened.bytes)]

(* --------------- the EncryptionService exercised on its own ------------ *)
MaxDecrypts == 2

\* What can happen to a stored payload before it is decrypted: a defect
\* (changed bytes, text that is not base64), or whitespace put into one of
\* its base64 texts, which atob ignores.
Causes == {"body", "tag", "iv", "salt", "base64"}
Whitespace == {"space_body", "space_iv", "space_salt"}

\* The first character of a base64 text replaced by the next of the alphabet.
AlterText(t) == [t EXCEPT ![1] = (t[1] + 1) % 64]

Altered(payload, cause) ==
  CASE cause = "body" ->
         [payload EXCEPT !.ciphertext.body = AlterText(payload.ciphertext.body)]
    [] cause = "tag" ->
         [payload EXCEPT !.ciphertext.tag.body = Append(@, 0)]
    [] cause = "iv" -> [payload EXCEPT !.iv = AlterText(payload.iv)]
    [] cause = "salt" -> [payload EXCEPT !.salt = AlterText(payload.salt)]
    [] cause = "base64" -> [payload EXCEPT !.iv = Append(@, Base64Junk)]
    [] cause = "space_body" ->
         [payload EXCEPT !.ciphertext.body = Append(@, Base64Space)]
    [] cause = "space_iv" -> [payload EXCEPT !.iv = Append(@, Base64Space)]
    [] OTHER -> [payload EXCEPT !.salt = <<@[1], Base64Space>> \o Tail(@)]

\* authenticateUser around its decryptApiKey call: what the caller gets when
\* decryption throws, and the key the call goes on with otherwise.
AfterDecrypt(decrypted) ==
  IF decrypted.threw
  THEN [result |-> AuthFailure(MsgDecryptFailed), key |-> Null]
  ELSE [result |-> NoResult, key |-> Some(decrypted.plaintext)]

InitCrypto ==
  /\ user_api_keys = << >>
  /\ auth_events = << >>
  /\ accepted = [k \in Keys |-> FALSE]
  /\ now = 0
  /\ nonce = 0
  /\ pc = [p \in Procs |-> "idle"]
  /\ issued = [p \in Procs |-> 0]
  /\ call = [p \in Procs |-> NoCall]
  /\ loc = [p \in Procs |-> NoLocals]
  /\ res = [p \in Procs |-> NoResult]
  /\ trace = [p \in Procs |-> << >>]
  /\ ncalls = 0
  /\ faulted = FALSE
  /\ ntamper = 0
  /\ router = NoRequest
  /\ \E plaintext \in Texts, discordUserId \in Identities :
       crypto = [stage |-> "new", plaintext |-> plaintext, identity |-> discordUserId]

CryptoUnchanged ==
  UNCHANGED <<user_api_keys, auth_events, pc, call, loc, res, trace, accepted,
              now, issued, nonce, ncalls, faulted, ntamper, router>>

\* encryptApiKey(plaintext, discordUserId) with a freshly drawn salt and iv.
CryptoEncrypt ==
  /\ crypto.stage = "new"
  /\ \E salt \in SaltChoices, iv \in IvChoices :
       LET encrypted == EncryptionService_encryptApiKey(
                          crypto.plaintext, crypto.identity, salt, iv)
       IN /\ ~encrypted.threw
          /\ crypto' = [stage |-> "sealed", plaintext |-> crypto.plaintext,
                        identity |-> crypto.identity,
                        payload |-> encrypted.data,
                        cause |-> "none", ndecrypts |-> 0]
  /\ CryptoUnchanged

\* The stored payload is altered before it is read back.
CryptoAlter ==
  /\ crypto.stage = "sealed"
  /\ crypto.cause = "none"
  /\ \E cause \in Causes \cup Whitespace :
       /\ cause = "body" => Len(crypto.payload.ciphertext.body) > 0
       /\ crypto' = [crypto EXCEPT !.payload = Altered(@, cause), !.cause = cause]
  /\ CryptoUnchanged

\* decryptApiKey(payload, reader), possibly again.
CryptoDecrypt ==
  /\ crypto.stage \in {"sealed", "opened"}
  /\ crypto.ndecrypts < MaxDecrypts
  /\ \E reader \in Identities :
       /\ crypto.stage = "opened" => reader = crypto.reader
       /\ crypto' = [stage |-> "opened", plaintext |-> crypto.plaintext,
                     identity |-> crypto.identity, payload |-> crypto.payload,
                     cause |-> crypto.cause, ndecrypts |-> crypto.ndecrypts + 1,
                     reader |-> reader,
                     decrypted |-> EncryptionService_decryptApiKey(crypto.payload, reader)]
  /\ CryptoUnchanged

NextCrypto == CryptoEncrypt \/ CryptoAlter \/ CryptoDecrypt

SpecCrypto == InitCrypto /\ [][NextCrypto]_vars

\* The payload was produced for the reader and has not been altered.
ReadBack ==
  crypto.stage = "opened" /\ crypto.cause = "none" /\ crypto.reader = crypto.identity

\* A string without unpaired surrogates.
WellFormed(s) ==
  \A i \in DOMAIN s :
    /\ IsHighSurrogate(s[i]) => (i < Len(s) /\ IsLowSurrogate(s[i + 1]))
    /\ IsLowSurrogate(s[i]) => (i > 1 /\ IsHighSurrogate(s[i - 1]))
StartsWithBOM(s) == Len(s) > 0 /\ s[1] = 65279

\* C21 as stated: for every identity and every plaintext, the empty string
\* included, decrypting the payload of encryptApiKey(plaintext, identity)
\* under the same identity returns exactly the plaintext, every time.
C21_RoundTrip ==
  ReadBack => /\ ~crypto.decrypted.threw
              /\ crypto.decrypted.plaintext = crypto.plaintext

\* C21 amended: the same, for every plaintext that has no unpaired surrogate
\* and does not begin with U+FEFF.  For the other plaintexts decryption
\* succeeds as well and returns what TextDecoder makes of the encoded text.
C21_RoundTripOfWellFormedText ==
  ReadBack
  => /\ ~crypto.decrypted.threw
     /\ crypto.decrypted.plaintext =
          TextDecoder_decode(TextEncoder_encode(crypto.plaintext))
     /\ (WellFormed(crypto.plaintext) /\ ~StartsWithBOM(crypto.plaintext))
        => crypto.decrypted.plaintext = crypto.plaintext

\* C21 witness: a plaintext holding a two-byte character and a BOM that is
\* not in front has been decrypted twice and came back unchanged.
C21_Witness ==
  /\ ReadBack
  /\ crypto.ndecrypts = 2
  /\ crypto.plaintext = <<233, 65279>>
  /\ crypto.decrypted.plaintext = crypto.plaintext


\* The payload, unaltered, is read back under another identity than the one
\* it was produced for.
ReadByOther ==
  crypto.stage = "opened" /\ crypto.cause = "none" /\ crypto.reader # crypto.identity

\* decryptApiKey failed and authenticateUser, going on from there, returns
\* its decryption failure without a credential.
DecryptRefused ==
  /\ crypto.decrypted = [threw |-> TRUE, error |-> MsgDecryptionFailed,
                         plaintext |-> << >>]
  /\ AfterDecrypt(crypto.decrypted) =
       [result |-> AuthFailure(MsgDecryptFailed), key |-> Null]

\* C22 as stated: for any two different identities and every plaintext,
\* decrypting under the second identity what was encrypted under the first
\* fails, so that authenticateUser for the second identity gets no credential.
C22_OtherIdentityFails == ReadByOther => DecryptRefused

\* C22 amended: the same, for any two identities whose UTF-8 encodings differ,
\* which any two different strings without unpaired surrogates have.
C22_OtherEncodedIdentityFails ==
  /\ (ReadByOther /\ TextEncoder_encode(crypto.reader) # TextEncoder_encode(crypto.identity))
       => DecryptRefused
  /\ \A id1, id2 \in Identities :
       (WellFormed(id1) /\ WellFormed(id2) /\ id1 # id2)
         => TextEncoder_encode(id1) # TextEncoder_encode(id2)

\* C22 witness: a non-empty plaintext encrypted for "1" was refused to "2".
C22_Witness ==
  /\ ReadByOther
  /\ crypto.identity = <<49>> /\ crypto.reader = <<50>>
  /\ Len(crypto.plaintext) > 0
  /\ DecryptRefused


\* Every result of an encryption operation that is held somewhere: the
\* stored ciphertexts and the payloads the calls in progress have produced.
\* A sealed term records the salt and iv its operation drew.
Sealed(table, locals) ==
  ({table[u].encryptedApiKey : u \in DOMAIN table}
     \cup {locals[p].encrypted.ciphertext : p \in Procs}) \ {NoPayload.ciphertext}

\* Two results of different operations share neither salt nor iv.
NoSharedRandomness(terms) ==
  \A c1, c2 \in terms : c1 # c2 => (c1.iv # c2.iv /\ c1.salt # c2.salt)

\* C23: an encryptApiKey call draws a salt and an iv that no earlier
\* encryption result holds; no two encryption results share a salt or an iv;
\* a record whose ciphertext is replaced gets the salt and iv of the new
\* encryption, both different from those of the version it replaces.
C23_FreshSaltAndIv ==
  [][/\ NoSharedRandomness(Sealed(user_api_keys, loc) \cup Sealed(user_api_keys', loc'))
     /\ \A p \in Procs :
          (pc[p] = "r_encrypt" /\ pc'[p] = "r_lookup")
          => \A c \in Sealed(user_api_keys, loc) :
               /\ loc'[p].encrypted.iv # c.iv
               /\ loc'[p].encrypted.salt # c.salt
     /\ \A u \in Users :
          (/\ Registered(u) /\ u \in DOMAIN user_api_keys'
           /\ user_api_keys'[u].encryptedApiKey # user_api_keys[u].encryptedApiKey)
          => /\ user_api_keys'[u].encryptionIv = user_api_keys'[u].encryptedApiKey.iv
             /\ user_api_keys'[u].encryptionSalt = user_api_keys'[u].encryptedApiKey.salt
             /\ user_api_keys'[u].encryptionIv # user_api_keys[u].encryptedApiKey.iv
             /\ user_api_keys'[u].encryptionSalt # user_api_keys[u].encryptedApiKey.salt]_vars

\* C23 witness: two registrations were encrypted while a record from an
\* earlier registration is stored; the record now holds the second version.
C23_Witness ==
  \E p, q \in Procs :
    /\ p # q
    /\ loc[p].encrypted # NoPayload /\ loc[q].encrypted # NoPayload
    /\ call[p].key = call[q].key
    /\ Registered(call[p].user)
    /\ user_api_keys[call[p].user].encryptedApiKey = loc[p].encrypted.ciphertext
    /\ user_api_keys[call[p].user].registrationTimestamp = 1


\* The one error decryptApiKey raises.
DecryptionError ==
  [threw |-> TRUE, error |-> MsgDecryptionFailed, plaintext |-> << >>]

\* The payload that was read had one of the defects for which decryptApiKey
\* is to fail: another identity's additional data, or an altered field.
Defective ==
  /\ crypto.stage = "opened"
  /\ \/ crypto.cause \in Causes
     \/ TextEncoder_encode(crypto.reader) # TextEncoder_encode(crypto.identity)

\* The payload that was read differs from the one encryptApiKey produced
\* only by whitespace in one of its base64 texts, and its reader has the
\* additional data of the identity it was produced for.
OnlyWhitespace ==
  /\ crypto.stage = "opened"
  /\ crypto.cause \in Whitespace
  /\ TextEncoder_encode(crypto.reader) = TextEncoder_encode(crypto.identity)

\* C24: decryptApiKey raises the same error, of the same kind and with the
\* same message, whichever sub-step failed: base64 decoding, or the tag
\* verification after a change of identity, ciphertext, iv or salt.  Every
\* one of these defects makes it fail, and it fails in no other way: a text
\* that only had whitespace put in decodes to the same bytes and is read as
\* the unaltered payload is.
C24_SingleFailureOutcome ==
  /\ (crypto.stage = "opened" /\ crypto.decrypted.threw)
       => crypto.decrypted = DecryptionError
  /\ Defective => crypto.decrypted = DecryptionError
  /\ OnlyWhitespace
       => crypto.decrypted =
            [threw |-> FALSE, error |-> NULL,
             plaintext |-> TextDecoder_decode(TextEncoder_encode(crypto.plaintext))]

\* C24 witness: a payload whose iv is not decodable base64 was refused to
\* the identity it was produced for.
C24_Witness ==
  /\ crypto.stage = "opened"
  /\ crypto.cause = "base64"
  /\ crypto.reader = crypto.identity
  /\ base64ToArrayBuffer(crypto.payload.iv).threw
  /\ crypto.decrypted = DecryptionError


\* The columns of user_api_keys, and those of them that hold text.
Columns ==
  {"discordUserId", "encryptedApiKey", "encryptionIv", "encryptionSalt",
   "registrationTimestamp", "lastUsedTimestamp", "lastValidatedTimestamp",
   "validationStatus", "temboUserId", "temboOrgId", "temboEmail"}
TextOf(row) ==
  {row.discordUserId, row.validationStatus, row.temboUserId, row.temboOrgId,
   row.temboEmail}

\* The metadata an audit event may carry.
ReasonCodes == {"decryption_failed", "invalid_api_key"}
RemoteUserIds == {UserIdOf(k) : k \in RealKeys}

\* C25: in every reachable state no column of a credential record holds a
\* plaintext credential (the ciphertext column holds a result of
\* encryptApiKey, with the iv and salt columns next to it), the metadata of
\* every audit event is empty, one of the fixed reason codes or the remote
\* user id, and every failed RegisterResult or AuthResult carries one of the
\* fixed messages, no user info and no TemboService.
C25_NoPlaintextCredential ==
  /\ \A u \in DOMAIN user_api_keys :
       LET row == user_api_keys[u]
           c == row.encryptedApiKey
       IN /\ DOMAIN row = Columns
          /\ TextOf(row) \cap RealKeys = {}
          /\ c = encryptApiKey(c.pt, c.aad, c.iv, c.salt).ciphertext
          /\ row.encryptionIv \in Nat /\ row.encryptionSalt \in Nat
  /\ \A i \in DOMAIN auth_events :
       /\ auth_events[i].reason \in ReasonCodes \cup {NULL}
       /\ auth_events[i].temboUserId \in RemoteUserIds \cup {NULL}
       /\ {auth_events[i].discordUserId, auth_events[i].eventType} \cap RealKeys = {}
  /\ \A p \in Procs :
       (res[p].returned /\ ~res[p].success)
       => /\ res[p].error \in AuthMessages \cup RegisterMessages \cup {NULL, MsgUnregisterFailed}
          /\ res[p].error \notin RealKeys
          /\ res[p].userInfo = NoUserInfo
          /\ res[p].temboService = Null

\* C25 witness: a stored credential was rejected at authentication; the
\* record, the audit event with its reason code and the failure result are
\* all there.
C25_Witness ==
  \E p \in Procs, i \in DOMAIN auth_events :
    /\ pc[p] = "idle" /\ call[p].op = "authenticate"
    /\ res[p] = AuthFailure(MsgKeyInvalid)
    /\ loc[p].decryptedApiKey \in RealKeys
    /\ Registered(call[p].user)
    /\ StoredKey(call[p].user) = loc[p].decryptedApiKey
    /\ auth_events[i].reason = "invalid_api_key"


(* ------------------------------ termination ---------------------------- *)
\* The steps of a call that wait for the store, the audit log or the
\* EncryptionService: each of these awaits settles.
StoreStep(p) ==
  \/ RegEncrypt(p) \/ RegLookup(p) \/ RegUpdateKey(p) \/ RegUpdateStatus(p)
  \/ RegLogUpdate(p) \/ RegSave(p) \/ RegLogRegister(p)
  \/ AuthLookup(p) \/ AuthDecrypt(p) \/ AuthLogDecrypt(p) \/ AuthTouch(p)
  \/ AuthInvalidate(p) \/ AuthLogInvalid(p)
  \/ UnregDelete(p) \/ UnregLog(p)

\* The steps that wait for the Tembo API: await getCurrentUser(), issued
\* through new Tembo({ apiKey }) with no timeout and no abort signal.
ValidatorStep(p) == RegValidate(p) \/ AuthValidate(p)

\* Every store call eventually returns or fails; nothing is assumed of the
\* validator.
SpecStoreFair == Spec /\ \A p \in Procs : WF_vars(StoreStep(p))

\* C26: every authenticateUser and registerApiKey call eventually returns a
\* result, assuming only that each store call eventually returns or fails,
\* in particular when the validator never answers.
C26_EveryCallReturns ==
  \A p \in Procs :
    (pc[p] # "idle" /\ call[p].op \in {"authenticate", "register"})
      ~> (pc[p] = "idle" /\ res[p].returned)


\* Call p takes a step of the rejection path of authenticateUser: the
\* updateValidationStatus("invalid") write or the audit event after it.
RejectionStep(p) ==
  /\ call[p].op = "authenticate"
  /\ pc[p] \in {"a_invalidate", "a_log_invalid"}
  /\ pc'[p] # pc[p]

\* The payload and the times a rejection does not touch.
PayloadAndTimes(row) ==
  <<row.encryptedApiKey, row.encryptionIv, row.encryptionSalt,
    row.registrationTimestamp, row.lastUsedTimestamp>>
ClaimsOf(row) ==
  [userId |-> row.temboUserId, orgId |-> row.temboOrgId, email |-> row.temboEmail]

\* C27 as stated: a rejection at authentication time changes only
\* validationStatus and lastValidatedAt; ciphertext, iv, salt, registeredAt,
\* lastUsedAt and the remote identity claims of the record stay as they were.
C27_RejectionChangesOnlyStatus ==
  [][\A p \in Procs : \A u \in Users :
       (RejectionStep(p) /\ Registered(u) /\ u \in DOMAIN user_api_keys')
       => /\ PayloadAndTimes(user_api_keys'[u]) = PayloadAndTimes(user_api_keys[u])
          /\ ClaimsOf(user_api_keys'[u]) = ClaimsOf(user_api_keys[u])]_vars

\* C27 amended: a rejection at authentication time leaves ciphertext, iv,
\* salt, registeredAt and lastUsedAt as they were and creates or deletes no
\* record; its updateValidationStatus write sets validationStatus to
\* "invalid", lastValidatedAt to the time the call read when it issued the
\* write, and clears the three remote identity claims; when that write
\* fails, and in the audit step, the record does not change at all.
C27_RejectionKeepsPayloadAndTimes ==
  [][\A p \in Procs :
       RejectionStep(p)
       => /\ DOMAIN user_api_keys' = DOMAIN user_api_keys
          /\ \A u \in DOMAIN user_api_keys :
               /\ PayloadAndTimes(user_api_keys'[u]) = PayloadAndTimes(user_api_keys[u])
               /\ \/ user_api_keys'[u] = user_api_keys[u]
                  \/ /\ pc[p] = "a_invalidate" /\ pc'[p] = "a_log_invalid"
                     /\ u = call[p].user
                     /\ user_api_keys'[u].validationStatus = "invalid"
                     /\ user_api_keys'[u].lastValidatedTimestamp = issued[p]
                     /\ ClaimsOf(user_api_keys'[u]) = NoUserInfo]_vars

\* C27 witness: a record registered at time 1 with its claims was rejected
\* at a later authentication: it is "invalid", validated at that later time,
\* without claims, and has the payload and times of the registration.
C27_Witness ==
  \E p \in Procs :
    /\ pc[p] = "idle" /\ call[p].op = "authenticate"
    /\ res[p] = AuthFailure(MsgKeyInvalid)
    /\ Registered(call[p].user)
    /\ user_api_keys[call[p].user].validationStatus = "invalid"
    /\ user_api_keys[call[p].user].lastValidatedTimestamp > 1
    /\ ClaimsOf(user_api_keys[call[p].user]) = NoUserInfo
    /\ PayloadAndTimes(user_api_keys[call[p].user]) = PayloadAndTimes(EarlierTable[EarlierUser])


\* C28: a registerApiKey call that returns success has stored its
\* credential: its INSERT created the row or its UPDATE of the ciphertext
\* changed a row, also when an unregisterUser call for the identity deletes
\* the record between the lookup and the writes of the call.
C28_SuccessMeansStored ==
  [][\A p \in Procs :
       (Returns(p, "register") /\ res'[p].success) => loc'[p].stored]_vars


\* C29: the updateValidationStatus("invalid") write of authenticateUser
\* changes a record only if the record still holds the ciphertext the call
\* read and the validator rejected; a record whose ciphertext a concurrent
\* registerApiKey has replaced since is not set to "invalid" by that call.
C29_InvalidatesOnlyWhatWasRejected ==
  [][\A p \in Procs :
       LET u == call[p].user
       IN (/\ call[p].op = "authenticate"
           /\ pc[p] = "a_invalidate" /\ pc'[p] = "a_log_invalid"
           /\ Registered(u)
           /\ user_api_keys[u].encryptedApiKey # loc[p].record[1].encryptedApiKey)
          => user_api_keys'[u].validationStatus # "invalid"]_vars


(* --------------------------- interaction router ------------------------ *)
\* app.post("/interactions"): one request at a time is followed through the
\* handler.  Its own AuthService call runs as request RequestProc; the
\* registration that /setup hands to ctx.waitUntil runs as BackgroundProc
\* and may still be running when the next request arrives.
RequestProc == 1
BackgroundProc == 2

\* index.ts defines the /interactions route twice: the handler of lines
\* 38-280 authenticates the user and works with the user's own credential,
\* the handler of lines 309-384 works with the credential of the deployment.
Handlers == {"per_user", "shared"}

\* env.TEMBO_API_KEY, the credential of the deployment.
TEMBO_API_KEY == "k0"

\* A name every object inherits from Object.prototype (toString,
\* constructor, valueOf, hasOwnProperty, ...): controllers[commandName]
\* finds a function under it, which is no controller.
InheritedNames == {"toString"}

\* What controllers[commandName] yields for a name of InheritedNames.
Inherited == "Object.prototype"

CommandNames ==
  {"task", "repositories", "whoami", "setup", "unregister", "status", "help"}
  \cup InheritedNames
CustomIds == {"task_refresh", "repo_select"}

UNAUTHENTICATED_COMMANDS == {"setup", "unregister", "status"}

\* The keys of the controllers objects the handlers build.
TemboControllers == {"task", "repositories", "whoami"}
AuthControllers == {"setup", "unregister", "status"}

\* customId.startsWith("task_")
StartsWithTask(customId) == customId = "task_refresh"

\* The request as the handler sees it while it works on it.
Request(handler, type, commandName, customId, userId) ==
  [stage |-> "received", handler |-> handler, type |-> type,
   commandName |-> commandName, customId |-> customId, userId |-> userId,
   temboService |-> Null, controller |-> NULL, method |-> NULL,
   onboarding |-> FALSE, reply |-> NULL]

Reply(r, kind) == [r EXCEPT !.stage = "replied", !.reply = kind]

\* controller.handle / handleAutocomplete / handleComponent is called.
Handled(r, controller, method) ==
  [r EXCEPT !.stage = "handling", !.controller = controller, !.method = method]

ServiceUnchanged ==
  UNCHANGED <<user_api_keys, auth_events, pc, call, loc, res, trace, accepted,
              now, issued, nonce, ncalls, faulted, ntamper, crypto>>

\* The requests that can arrive: a body whose signature does not verify is
\* never parsed; a command or autocomplete interaction names its command, a
\* component interaction carries the custom_id of the component.
Requests ==
  {Request(handler, type, NULL, NULL, userId) :
     handler \in Handlers, type \in {"unverified", "Ping", "ModalSubmit"},
     userId \in Users}
  \cup {Request(handler, type, commandName, NULL, userId) :
          handler \in Handlers,
          type \in {"ApplicationCommand", "ApplicationCommandAutocomplete"},
          commandName \in CommandNames, userId \in Users}
  \cup {Request(handler, "MessageComponent", NULL, customId, userId) :
          handler \in Handlers, customId \in CustomIds, userId \in Users}

\* verifyDiscordRequest, the Ping answer and the choice of the branch.  The
\* second handler has the command branch only, and enters it with the
\* TemboService of the deployment's credential.
RouterReceive ==
  /\ router.stage \in {"none", "replied"}
  /\ pc[RequestProc] = "idle"
  /\ ncalls < MaxCalls          \* no request is followed once the calls are used up
  /\ \E r \in Requests :
       router' =
         IF r.type = "unverified" THEN Reply(r, "401 Invalid request signature")
         ELSE IF r.type = "Ping" THEN Reply(r, "Pong")
         ELSE IF r.handler = "shared"
              THEN IF r.type = "ApplicationCommand"
                   THEN [r EXCEPT !.stage = "dispatch",
                                  !.temboService =
                                     createTemboService(TEMBO_API_KEY).client]
                   ELSE Reply(r, "400 Unsupported interaction type")
         ELSE IF r.type = "ApplicationCommand"
              THEN IF r.commandName \notin UNAUTHENTICATED_COMMANDS
                   THEN [r EXCEPT !.stage = "authenticate"]
                   ELSE [r EXCEPT !.stage = "dispatch"]
         ELSE IF r.type \in {"ApplicationCommandAutocomplete", "MessageComponent"}
              THEN [r EXCEPT !.stage = "authenticate"]
         ELSE Reply(r, "400 Unsupported interaction type")
  /\ ServiceUnchanged

\* authResult = await authService.authenticateUser(userId): the call starts.
RouterAuthenticate ==
  /\ router.stage = "authenticate"
  /\ Enter(RequestProc, "authenticate", router.userId, NULL, "a_lookup")
  /\ router' = [router EXCEPT !.stage = "authenticating"]

\* The call has returned: the handler answers a failure itself and goes on
\* to the controllers with authResult.temboService otherwise.
RouterAuthenticated ==
  /\ router.stage = "authenticating"
  /\ pc[RequestProc] = "idle" /\ res[RequestProc].returned
  /\ LET authResult == res[RequestProc]
     IN router' =
          IF authResult.success
          THEN [router EXCEPT !.stage = "dispatch",
                              !.temboService = authResult.temboService]
          ELSE IF router.type = "ApplicationCommand"
               THEN IF authResult.requiresOnboarding
                    THEN [Reply(router, "Setup Required") EXCEPT !.onboarding = TRUE]
                    ELSE Reply(router, "Authentication failed")
          ELSE IF router.type = "ApplicationCommandAutocomplete"
               THEN Reply(router, "choices: []")
          ELSE Reply(router, "You must register your API key")
  /\ ServiceUnchanged

\* controllers[commandName] on the object literal with the given keys: the
\* controller under an own key, the inherited function under a name of
\* Object.prototype, undefined (NULL) otherwise.
Lookup(keys, commandName) ==
  IF commandName \in keys THEN commandName
  ELSE IF commandName \in InheritedNames THEN Inherited
  ELSE NULL

\* The controllers object the branch builds, looked up by the command name
\* or by the prefix of the custom_id; NULL when the branch finds nothing.
ControllerFor(r) ==
  IF r.type = "ApplicationCommand"
  THEN IF r.handler = "per_user"
       THEN Lookup(TemboControllers \cup AuthControllers, r.commandName)
       ELSE Lookup(TemboControllers, r.commandName)
  ELSE IF r.type = "ApplicationCommandAutocomplete"
       THEN Lookup(TemboControllers, r.commandName)
  ELSE IF StartsWithTask(r.customId) THEN "task" ELSE NULL

\* The method the branch calls on the controller.
MethodFor(r) ==
  IF r.type = "ApplicationCommand" THEN "handle"
  ELSE IF r.type = "ApplicationCommandAutocomplete" THEN "handleAutocomplete"
  ELSE "handleComponent"

\* What the branch answers without a controller, and after a controller's
\* handleAutocomplete or handleComponent has thrown.
FallThrough(r) ==
  IF r.type = "ApplicationCommand" THEN "Unknown command"
  ELSE IF r.type = "ApplicationCommandAutocomplete" THEN "choices: []"
  ELSE "Unknown interaction or handler not found"

\* What the request gets when controller.handle throws inside asyncHandler:
\* the wrapper answers with an error message or lets the error through.
AsyncHandlerOutcomes == {"error response", "500 Internal Server Error"}

\* What the request gets when the call of the controller's method threw.
AfterThrow(r) ==
  IF MethodFor(r) = "handle" THEN AsyncHandlerOutcomes ELSE {FallThrough(r)}

\* The branch looks its controller up and calls it, or answers itself when
\* it finds nothing.  What it finds under an inherited name passes the
\* !controller test but has no handle and no handleAutocomplete: the call
\* throws a TypeError before any controller runs.
RouterDispatch ==
  /\ router.stage = "dispatch"
  /\ IF ControllerFor(router) = NULL
     THEN router' = Reply(router, FallThrough(router))
     ELSE IF ControllerFor(router) = Inherited
     THEN \E kind \in AfterThrow(router) : router' = Reply(router, kind)
     ELSE router' = Handled(router, ControllerFor(router), MethodFor(router))
  /\ ServiceUnchanged

\* TaskController, RepositoriesController and WhoamiController: handle and
\* the handleAutocomplete and handleComponent of TaskController work with
\* the TemboService and may throw; the other two controllers inherit a
\* handleAutocomplete that answers with no choices.
RouterHandled ==
  /\ router.stage = "handling"
  /\ router.controller \in TemboControllers
  /\ \/ router' =
          Reply(router, IF router.method = "handleAutocomplete"
                           /\ router.controller # "task"
                        THEN "choices: []"
                        ELSE "controller response")
     \/ /\ router.method = "handle" \/ router.controller = "task"
        /\ \E kind \in AfterThrow(router) : router' = Reply(router, kind)
  /\ ServiceUnchanged

\* StatusController.handle: await getUserStatus(userId), a store read that
\* rejects out of the controller when it fails.
RouterStatus ==
  /\ router.stage = "handling"
  /\ router.controller = "status"
  /\ \E ok \in BOOLEAN :
       /\ IF ok
          THEN router' = Reply(router, IF isUserRegistered(user_api_keys, router.userId)
                                       THEN "Registration Status"
                                       ELSE "Not Registered")
          ELSE \E kind \in AfterThrow(router) : router' = Reply(router, kind)
       /\ faulted' = (faulted \/ ~ok)
  /\ UNCHANGED <<user_api_keys, auth_events, pc, call, loc, res, trace, accepted,
                 now, issued, nonce, ncalls, ntamper, crypto>>

\* SetupController.handle: an empty key is refused; with an execution
\* context and an application id registerApiKey(userId, apiKey) is handed to
\* ctx.waitUntil and the loading message is returned at once; without them
\* the controller awaits registerApiKey itself.
RouterSetup ==
  /\ router.stage = "handling"
  /\ router.controller = "setup"
  /\ \E apiKey \in Keys, deferred \in BOOLEAN :
       IF apiKey = EmptyKey
       THEN /\ router' = Reply(router, "API key is required")
            /\ ServiceUnchanged
       ELSE IF deferred
       THEN /\ Enter(BackgroundProc, "register", router.userId, apiKey, "r_validate")
            /\ router' = Reply(router, "Validating and registering")
       ELSE /\ Enter(RequestProc, "register", router.userId, apiKey, "r_validate")
            /\ router' = [router EXCEPT !.stage = "registering"]

\* registerApiKey has returned to the controller that awaited it.
RouterSetupDone ==
  /\ router.stage = "registering"
  /\ pc[RequestProc] = "idle" /\ res[RequestProc].returned
  /\ router' = Reply(router, IF res[RequestProc].success
                             THEN "API key registered successfully"
                             ELSE "registration failed")
  /\ ServiceUnchanged

\* UnregisterController.handle: await isUserRegistered(userId), a store read
\* outside the try block, which rejects out of the controller when it fails;
\* then the confirm option, then await unregisterUser(userId).
RouterUnregister ==
  /\ router.stage = "handling"
  /\ router.controller = "unregister"
  /\ \E ok \in BOOLEAN, confirm \in BOOLEAN :
       IF ~ok
       THEN /\ \E kind \in AfterThrow(router) : router' = Reply(router, kind)
            /\ faulted' = TRUE
            /\ UNCHANGED <<user_api_keys, auth_events, pc, call, loc, res, trace,
                           accepted, now, issued, nonce, ncalls, ntamper, crypto>>
       ELSE IF ~isUserRegistered(user_api_keys, router.userId)
       THEN /\ router' = Reply(router, "No registered API key")
            /\ ServiceUnchanged
       ELSE IF ~confirm
       THEN /\ router' = Reply(router, "Are you sure")
            /\ ServiceUnchanged
       ELSE /\ Enter(RequestProc, "unregister", router.userId, NULL, "u_delete")
            /\ router' = [router EXCEPT !.stage = "unregistering"]

\* unregisterUser has returned or thrown: the controller answers.
RouterUnregistered ==
  /\ router.stage = "unregistering"
  /\ pc[RequestProc] = "idle" /\ res[RequestProc].returned
  /\ router' = Reply(router, IF res[RequestProc].threw
                             THEN "Failed to remove your API key"
                             ELSE "Your API key has been removed")
  /\ ServiceUnchanged

NextRouter ==
  \/ RouterReceive
  \/ RouterAuthenticate
  \/ RouterAuthenticated
  \/ RouterDispatch
  \/ RouterHandled
  \/ RouterStatus
  \/ RouterSetup
  \/ RouterSetupDone
  \/ RouterUnregister
  \/ RouterUnregistered
  \/ \E p \in Procs : RegValidate(p)
  \/ \E p \in Procs : RegEncrypt(p)
  \/ \E p \in Procs : RegLookup(p)
  \/ \E p \in Procs : RegUpdateKey(p)
  \/ \E p \in Procs : RegUpdateStatus(p)
  \/ \E p \in Procs : RegLogUpdate(p)
  \/ \E p \in Procs : RegSave(p)
  \/ \E p \in Procs : RegLogRegister(p)
  \/ \E p \in Procs : AuthLookup(p)
  \/ \E p \in Procs : AuthDecrypt(p)
  \/ \E p \in Procs : AuthLogDecrypt(p)
  \/ \E p \in Procs : AuthValidate(p)
  \/ \E p \in Procs : AuthTouch(p)
  \/ \E p \in Procs : AuthInvalidate(p)
  \/ \E p \in Procs : AuthLogInvalid(p)
  \/ \E p \in Procs : UnregDelete(p)
  \/ \E p \in Procs : UnregLog(p)
  \/ \E u \in Users : CorruptRow(u)

SpecRouter == Init /\ [][NextRouter]_vars


\* The controller that has been called for the request r, if any.
ControllerOf(r) == IF r.stage = "none" THEN NULL ELSE r.controller

\* The authenticateUser call of the request found no record for the user.
FoundNoRecord ==
  /\ call[RequestProc].op = "authenticate"
  /\ call[RequestProc].user = router.userId
  /\ trace[RequestProc][1] = [fn |-> "getUserApiKey", ok |-> TRUE]
  /\ loc[RequestProc].record = Null

\* The step calls a Tembo-backed controller for the request.
CallsTemboController ==
  ControllerOf(router') \in TemboControllers /\ ControllerOf(router) = NULL

\* The request's own authenticateUser call for the requesting user has
\* returned success, and the request works with the TemboService of it.
AuthenticatedRequest ==
  /\ call[RequestProc].op = "authenticate"
  /\ call[RequestProc].user = router.userId
  /\ pc[RequestProc] = "idle"
  /\ res[RequestProc].returned /\ res[RequestProc].success
  /\ router.temboService # Null
  /\ router.temboService = res[RequestProc].temboService

\* What the handler does when the authenticateUser call of the request has
\* returned: after a failure no controller is called; onboarding is
\* triggered exactly for a command whose lookup found no record.
AnswersFailedAuthentication ==
  (router.stage = "authenticating" /\ router'.stage # "authenticating")
  => /\ ~res[RequestProc].success
        => (router'.stage = "replied" /\ router'.controller = NULL)
     /\ (router.type = "ApplicationCommand" /\ FoundNoRecord)
        => (router'.stage = "replied" /\ router'.controller = NULL
            /\ router'.onboarding)
     /\ router'.onboarding
        => (router.type = "ApplicationCommand" /\ FoundNoRecord)

PerUserHandlerBehindAuthentication ==
  [][/\ (CallsTemboController /\ router.handler = "per_user")
          => (router.stage = "dispatch" /\ AuthenticatedRequest)
     /\ AnswersFailedAuthentication]_vars

\* /whoami was answered by its controller in a request of the handler that
\* authenticates, with the TemboService of the call the request made.
PerUserHandlerReached ==
  /\ router.stage = "replied" /\ router.handler = "per_user"
  /\ router.type = "ApplicationCommand" /\ router.commandName = "whoami"
  /\ router.controller = "whoami" /\ router.reply = "controller response"
  /\ call[RequestProc] = [op |-> "authenticate", user |-> router.userId, key |-> NULL]
  /\ res[RequestProc].success
  /\ router.temboService = res[RequestProc].temboService

====
